---- MODULE Spec2Model ----
(***************************************************************************)
(* The two publish engines of cryptoMarketAIAnalyzer:                      *)
(*   BinancePublisher (src/src/services/BinancePublisher.py), which drives *)
(*   a logged-in Chrome profile through Playwright, and                    *)
(*   WXPublisher (src/src/services/WXPublisher.py), which talks to the     *)
(*   WeChat official-account HTTP API with a cached access token.          *)
(*                                                                         *)
(* Text of the Python source that is not ASCII is written here in English  *)
(* (TLA+ strings are ASCII); the comment beside each string gives the      *)
(* source text.                                                            *)
(***************************************************************************)
EXTENDS Integers, Sequences, FiniteSets, TLC

VARIABLES
    \* ---- WXPublisher (API engine) ----
    now,            \* datetime.now(), in seconds
    access_token,   \* WXPublisher.access_token: NoToken or a WeixinToken
    app_id,         \* WXPublisher.app_id
    app_secret,     \* WXPublisher.app_secret
    last,           \* the API operation that finished last: its call and outcome
    finalSeen,      \* publish ids for which a poll has reported a final status
    drafts,         \* media ids that successful upload_draft calls have returned
    conc,           \* two callers inside ensure_access_token: where each stands
    \* ---- the content normalizers on their own ----
    norm,           \* a text, and what normalizing it once and twice gives
    \* ---- BinancePublisher._check_login_status on its own ----
    dom,            \* the page under inspection: selector -> the elements it matches
    check,          \* the last login check: what it read and what it returned
    \* ---- BinancePublisher (browser engine) ----
    pc,             \* where the running invocation stands ("idle": none runs)
    caller,         \* the operation invoked: push_to_binance or push_recommendation
    content,        \* push_to_binance's local content
    browser,        \* push_to_binance's local browser is set
    page,           \* push_to_binance's local page is set
    session,        \* the Chrome session of this invocation: none, open, closed
    chrome,         \* a Chrome process is running on the machine
    exc,            \* the exception in flight inside the inner try
    ret,            \* the value a return statement inside the inner try has set
    result,         \* how push_to_binance ended
    rec_result,     \* how push_recommendation ended
    log             \* what the invocation has done so far, in order

apiVars == <<now, access_token, app_id, app_secret, last, finalSeen, drafts, conc>>
normVars == <<norm>>
loginVars == <<dom, check>>
browserVars == <<pc, caller, content, browser, page, session, chrome,
                 exc, ret, result, rec_result, log>>

vars == <<apiVars, normVars, loginVars, browserVars>>

-----------------------------------------------------------------------------
(***************************************************************************)
(* Bounds of the model.                                                    *)
(***************************************************************************)
MaxNow == 120          \* the clock stops advancing here
MaxMatches == 2        \* elements of a page that one selector matches

-----------------------------------------------------------------------------
(***************************************************************************)
(* Python values.                                                          *)
(***************************************************************************)
None == [none |-> TRUE]

\* dict.get(key, default)
Get(d, key, default) == IF key \in DOMAIN d THEN d[key] ELSE default

\* An exception object: its class and str(error).
Exc(type, msg) == [type |-> type, msg |-> msg]

\* What an HTTP exchange (requests.get/post(...).json(), with the encoding
\* fix-up where the code has one) gives the caller: the parsed JSON object,
\* or an exception raised before any JSON is in hand (connection failure,
\* a body that is not JSON).
NoJson == [nojson |-> TRUE]
Raised(reply) == ~reply.ok
TransportError == Exc("RequestException", "connection failed")
HttpFailure == [ok |-> FALSE, json |-> NoJson]
HttpJson(j) == [ok |-> TRUE, json |-> j]

-----------------------------------------------------------------------------
(***************************************************************************)
(* WXPublisher: the access token.                                          *)
(***************************************************************************)
NoToken == None

\* timedelta(minutes=1), in seconds
SafetyMargin == 60

\* The configuration read by refresh(): os.getenv of the two keys.
ConfigAppId == "wx-app-id"
ConfigAppSecret == "wx-app-secret"

WeixinTokenNoClock(token, expires_in, t) ==
    [access_token |-> token, expires_in |-> expires_in, expires_at |-> expires_in]

\* WeixinToken.__init__, run at time t
WeixinToken(token, expires_in, t) ==
    [access_token |-> token, expires_in |-> expires_in, expires_at |-> t + expires_in]

\* json.dumps of a token-endpoint response, for the error message
JsonDumps(j) ==
    "{"
    \o (IF "errcode" \in DOMAIN j
          THEN "\"errcode\": " \o ToString(j.errcode) ELSE "")
    \o (IF "errmsg" \in DOMAIN j
          THEN ", \"errmsg\": \"" \o j.errmsg \o "\"" ELSE "")
    \o (IF "expires_in" \in DOMAIN j
          THEN "\"expires_in\": " \o ToString(j.expires_in) ELSE "")
    \o "}"

TokenIsFreshHourMargin(tok, t) ==
    /\ tok # NoToken
    /\ tok.expires_at > t + 60 * SafetyMargin

TokenIsFreshAtMargin(tok, t) ==
    /\ tok # NoToken
    /\ tok.expires_at >= t + SafetyMargin

\* Whether the cached token may be reused at time t (lines 57-58).
TokenIsFresh(tok, t) ==
    /\ tok # NoToken
    /\ tok.expires_at > t + SafetyMargin

\* ensure_access_token, called at time t with the cache tok; reply is what the
\* token endpoint answers if asked, d the time the exchange takes.  Gives the
\* outcome, the cache, the configuration and the clock after the call, and the
\* number of credential exchanges made.
EnsureAccessToken(tok, id, secret, t, reply, d) ==
    IF TokenIsFresh(tok, t)
    THEN \* line 59: the cached value, nothing else touched
         [outcome |-> "returned", value |-> tok.access_token, error |-> None,
          token |-> tok, app_id |-> id, app_secret |-> secret,
          now |-> t, exchanges |-> 0]
    ELSE IF Raised(reply)
    THEN \* line 65 raises; lines 76-78 log and re-raise
         [outcome |-> "raised", value |-> None, error |-> TransportError,
          token |-> tok, app_id |-> ConfigAppId, app_secret |-> ConfigAppSecret,
          now |-> t + d, exchanges |-> 1]
    ELSE IF "access_token" \notin DOMAIN reply.json
    THEN \* lines 67-68; the message is "获取access_token失败: " + json.dumps(response)
         [outcome |-> "raised", value |-> None,
          error |-> Exc("Exception", "get access_token failed: " \o JsonDumps(reply.json)),
          token |-> tok, app_id |-> ConfigAppId, app_secret |-> ConfigAppSecret,
          now |-> t + d, exchanges |-> 1]
    ELSE IF "expires_in" \notin DOMAIN reply.json
    THEN \* line 72: response['expires_in'] raises KeyError before the assignment
         [outcome |-> "raised", value |-> None,
          error |-> Exc("KeyError", "'expires_in'"),
          token |-> tok, app_id |-> ConfigAppId, app_secret |-> ConfigAppSecret,
          now |-> t + d, exchanges |-> 1]
    ELSE \* lines 70-74; WeixinToken reads the clock when it is constructed
         LET new == WeixinToken(reply.json.access_token, reply.json.expires_in, t + d)
         IN  [outcome |-> "returned", value |-> new.access_token, error |-> None,
              token |-> new, app_id |-> ConfigAppId, app_secret |-> ConfigAppSecret,
              now |-> t + d, exchanges |-> 1]

-----------------------------------------------------------------------------
(***************************************************************************)
(* The WeChat platform, as the engine sees it: what each endpoint may      *)
(* answer.                                                                 *)
(***************************************************************************)
TokenValues == {"tokA", "tokB"}
ExpiresIns == {60, 61, 120, 121}
InvalidIpMsg == "invalid ip 1.2.3.4 ipv6 ::ffff:1.2.3.4, not in whitelist"

TokenReplies ==
    {HttpFailure}
    \cup {HttpJson([access_token |-> v, expires_in |-> e]) : v \in TokenValues, e \in ExpiresIns}
    \cup {HttpJson([access_token |-> v]) : v \in TokenValues}
    \cup {HttpJson([errcode |-> 40164, errmsg |-> InvalidIpMsg])}

\* How long a credential exchange takes.
ExchangeDelays == {0, 60}

\* How far the clock moves between two calls.
ClockSteps == {60}

MediaIds == {"m1", "m2"}
PublishIds == {"p1", "p2"}
ErrCodes == {0, 53503, 53504, 53505, 40001, -1}
ErrMsgs == {"ok", "platform says no"}

\* Answers of freepublish/submit.
PublishJsons ==
    {[errcode |-> c, errmsg |-> m] : c \in ErrCodes, m \in ErrMsgs}
    \cup {[errcode |-> c] : c \in ErrCodes}
    \cup {[errcode |-> 0, errmsg |-> "ok", publish_id |-> p, msg_data_id |-> "d1"] : p \in PublishIds}
    \cup {[publish_id |-> p, msg_data_id |-> "d1"] : p \in PublishIds}
    \cup {[msg_data_id |-> "d1"]}

PublishReplies == {HttpFailure} \cup {HttpJson(j) : j \in PublishJsons}

\* Answers of freepublish/get.
PublishStatuses == {-1, 0, 1, 2, 3, 4, 5, 6, 99}
StatusJsons ==
    {[errcode |-> c, errmsg |-> "platform says no"] : c \in {40001, -1}}
    \cup {[errcode |-> 40001]}
    \cup {[errcode |-> 0, errmsg |-> "ok", publish_status |-> s] : s \in PublishStatuses}
    \cup {[publish_status |-> s, article_id |-> "a1"] : s \in PublishStatuses}
    \cup {[publish_id |-> p] : p \in PublishIds}

StatusReplies == {HttpFailure} \cup {HttpJson(j) : j \in StatusJsons}

-----------------------------------------------------------------------------
(***************************************************************************)
(* WXPublisher: direct_publish and check_publish_status.  Each takes tk,   *)
(* the outcome of its ensure_access_token call, and the endpoint's reply.  *)
(***************************************************************************)
\* The request an operation sends once it holds a token.
Request(endpoint, token, body) == [endpoint |-> endpoint, token |-> token, body |-> body]

SendWithRetry(request, reply) ==
    IF Raised(reply) THEN <<request, request>> ELSE <<request>>

\* Every operation calls requests.post or requests.get once for its
\* endpoint, outside any loop: the request goes out once, whatever the reply.
SendOnce(request, reply) == <<request>>

\* Lines 594-599: the message for an error code.
\*   53503 "该草稿未通过发布检查", 53504 "需前往公众平台官网使用草稿",
\*   53505 "请手动保存成功后再发表"; errmsg defaults to "未知错误".
MsgFailedCheck == "the draft did not pass the publish check"
MsgUseWebConsole == "go to the platform's web console to use the draft"
MsgSaveFirst == "save manually and successfully before publishing"
MsgUnknown == "unknown error"

PublishErrorMessageShifted(error_code, error_msg) ==
    IF error_code = 53503 THEN MsgUseWebConsole
    ELSE IF error_code = 53504 THEN MsgSaveFirst
    ELSE IF error_code = 53505 THEN MsgFailedCheck
    ELSE error_msg

PublishErrorMessage(error_code, error_msg) ==
    IF error_code = 53503 THEN MsgFailedCheck
    ELSE IF error_code = 53504 THEN MsgUseWebConsole
    ELSE IF error_code = 53505 THEN MsgSaveFirst
    ELSE error_msg

\* Line 601: "发布失败 (错误码: {error_code}): {error_msg}"
PublishFailed(error_code, error_msg) ==
    Exc("Exception",
        "publish failed (code: " \o ToString(error_code) \o "): " \o error_msg)

\* direct_publish(media_id), lines 558-610
DirectPublish(tk, reply, media_id) ==
    LET sent == SendOnce(Request("freepublish/submit", tk.value,
                                 [media_id |-> media_id]), reply)
        j == reply.json
    IN  IF tk.outcome = "raised"
        THEN [outcome |-> "raised", value |-> None, error |-> tk.error, sent |-> <<>>]
        ELSE IF Raised(reply)
        THEN [outcome |-> "raised", value |-> None, error |-> TransportError, sent |-> sent]
        ELSE IF "errcode" \in DOMAIN j /\ j.errcode # 0
        THEN [outcome |-> "raised", value |-> None,
              error |-> PublishFailed(Get(j, "errcode", -1),
                                      PublishErrorMessage(Get(j, "errcode", -1),
                                                          Get(j, "errmsg", MsgUnknown))),
              sent |-> sent]
        ELSE [outcome |-> "returned",
              value |-> [publish_id |-> Get(j, "publish_id", ""),
                         msg_data_id |-> Get(j, "msg_data_id", "")],
              error |-> None, sent |-> sent]

\* Lines 656-663
status_map ==
    [c \in 0..5 |->
        CASE c = 0 -> "published"
          [] c = 1 -> "publishing"
          [] c = 2 -> "failed_original"
          [] c = 3 -> "failed_general"
          [] c = 4 -> "failed_audit"
          [] c = 5 -> "published_emoji_escaped"]

StatusOfDefaultFailed(publish_status) ==
    IF publish_status \in DOMAIN status_map THEN status_map[publish_status]
    ELSE "failed_general"

\* status_map.get(publish_status, "unknown"), line 668
StatusOf(publish_status) ==
    IF publish_status \in DOMAIN status_map THEN status_map[publish_status] ELSE "unknown"

\* Line 653: "查询发布状态失败: {errmsg}"; a response without errmsg raises KeyError
StatusQueryFailed(j) ==
    IF "errmsg" \in DOMAIN j
    THEN Exc("Exception", "status query failed: " \o j.errmsg)
    ELSE Exc("KeyError", "'errmsg'")

\* check_publish_status(publish_id), lines 621-678
CheckPublishStatus(tk, reply, publish_id) ==
    LET sent == SendOnce(Request("freepublish/get", tk.value,
                                 [publish_id |-> publish_id]), reply)
        j == reply.json
    IN  IF tk.outcome = "raised"
        THEN [outcome |-> "raised", value |-> None, error |-> tk.error, sent |-> <<>>]
        ELSE IF Raised(reply)
        THEN [outcome |-> "raised", value |-> None, error |-> TransportError, sent |-> sent]
        ELSE IF "errcode" \in DOMAIN j /\ j.errcode # 0
        THEN [outcome |-> "raised", value |-> None, error |-> StatusQueryFailed(j),
              sent |-> sent]
        ELSE LET publish_status == Get(j, "publish_status", -1)
             IN  [outcome |-> "returned",
                  value |-> [status |-> StatusOf(publish_status),
                             publish_id |-> publish_id,
                             publish_status |-> publish_status,
                             article_id |-> Get(j, "article_id", ""),
                             article_url |-> Get(j, "article_url", ""),
                             fail_reason |-> Get(j, "fail_reason", "")],
                  error |-> None, sent |-> sent]

-----------------------------------------------------------------------------
(***************************************************************************)
(* BinancePublisher._check_login_status.                                   *)
(*                                                                         *)
(* A page is modelled by what its locators give: for each selector the     *)
(* elements it matches, in document order, each either visible or not.     *)
(* locator(sel).count() is the length of that list and                     *)
(* locator(sel).first.is_visible() the visibility of its first element.    *)
(* The text "登录" of the selectors is written "login-text" here.          *)
(***************************************************************************)
\* Lines 280-285
login_selectors ==
    << "button:has-text(login-text)",
       "a:has-text(login-text)",
       "div:has-text(login-text):not(:has(*))",
       "[href*=login]" >>

\* Lines 294-302; "个人中心" is written "personal-center"
logged_in_selectors ==
    << "div.css-1hsz9t1",
       ".UserAvatar",
       "a:has-text(personal-center)",
       "[href*=my]",
       "img.avatar",
       "div.user-info",
       "[data-testid=header-user-icon]" >>

\* Line 311
editor_selector == "div.ProseMirror[contenteditable=true]"

\* Line 325
content_area_selector == ".feed-publish-wrapper, .post-editor, div.dynamic-form"

Range(seq) == {seq[i] : i \in DOMAIN seq}

Selectors ==
    Range(login_selectors) \cup Range(logged_in_selectors)
    \cup {editor_selector, content_area_selector}

\* elements.count() > 0 and elements.first.is_visible()  (lines 289, 306, 326)
FirstIsVisible(elements) ==
    Len(elements) > 0 /\ elements[1]

\* The page queries of one check, in the order the code makes them:
\* page.content() (line 273), one locator per login selector, one per
\* logged-in selector, the editor locator, page.title()/page.url, the
\* content-area locator.
ProbeContent == 1
ProbeLogin(i) == ProbeContent + i
ProbeLoggedIn(i) == ProbeContent + Len(login_selectors) + i
ProbeEditor == ProbeContent + Len(login_selectors) + Len(logged_in_selectors) + 1
ProbeTitle == ProbeEditor + 1
ProbeContentArea == ProbeTitle + 1
NProbes == ProbeContentArea

\* What can be read off a page besides its elements: whether the title
\* contains "登录", whether the lower-cased URL contains "login", and which
\* page query raises (0: none does).
PageReads ==
    [title_login : BOOLEAN, url_login : BOOLEAN, fail : 0..NProbes]

\* The loop of lines 287-291 from selector i on, then the rest of the try
\* block: "True" and "False" are the value returned, "except" says that a
\* page query raised.
RECURSIVE TryFromLogin(_, _, _), TryFromLoggedIn(_, _, _)

TryRest(p, r) ==
    IF r.fail = ProbeEditor THEN "except"
    ELSE IF Len(p[editor_selector]) > 0 THEN "True"                \* lines 311-314
    ELSE IF r.fail = ProbeTitle THEN "except"
    ELSE IF r.title_login \/ r.url_login THEN "False"              \* lines 317-322
    ELSE IF r.fail = ProbeContentArea THEN "except"
    ELSE IF FirstIsVisible(p[content_area_selector]) THEN "True"   \* lines 325-328
    ELSE "False"                                                   \* lines 330-331

TryFromLoggedIn(p, r, i) ==
    IF i > Len(logged_in_selectors) THEN TryRest(p, r)
    ELSE IF r.fail = ProbeLoggedIn(i) THEN "except"
    ELSE IF FirstIsVisible(p[logged_in_selectors[i]]) THEN "True"  \* lines 304-308
    ELSE TryFromLoggedIn(p, r, i + 1)

TryFromLogin(p, r, i) ==
    IF i > Len(login_selectors) THEN TryFromLoggedIn(p, r, 1)
    ELSE IF r.fail = ProbeLogin(i) THEN "except"
    ELSE IF FirstIsVisible(p[login_selectors[i]]) THEN "False"     \* lines 287-291
    ELSE TryFromLogin(p, r, i + 1)

\* Lines 271-331
TryCheckLogin(p, r) ==
    IF r.fail = ProbeContent THEN "except"
    ELSE TryFromLogin(p, r, 1)

\* A check whose except clause takes the user for logged in.
CheckLoginStatusLenient(p, r) == TryCheckLogin(p, r) # "False"

\* _check_login_status(page), lines 269-335: the except clause of lines
\* 333-335 returns False.
CheckLoginStatus(p, r) ==
    LET t == TryCheckLogin(p, r)
    IN  IF t = "except" THEN FALSE ELSE t = "True"

\* Pages: at most two selectors match anything, each at most MaxMatches
\* elements.
MatchLists == UNION {[1..k -> BOOLEAN] : k \in 0..MaxMatches}

Pages ==
    {[s \in Selectors |-> IF s = s1 THEN l1 ELSE IF s = s2 THEN l2 ELSE <<>>] :
        s1 \in Selectors, s2 \in Selectors, l1 \in MatchLists, l2 \in MatchLists}

NoPage == [s \in Selectors |-> <<>>]
NoCheck == [done |-> FALSE, title_login |-> FALSE, url_login |-> FALSE, fail |-> 0,
            logged_in |-> FALSE]

\* No login check under way.
LoginIdle ==
    /\ dom = NoPage
    /\ check = NoCheck

-----------------------------------------------------------------------------
(***************************************************************************)
(* BinancePublisher._preprocess_content.  A text is a sequence of code     *)
(* points; an element -n stands for a maximal run of n decimal digits '1'  *)
(* (so that a reference of thousands of digits stays one element).         *)
(***************************************************************************)
Amp == 38          \* '&'
Hash == 35         \* '#'
Replacement == 65533   \* U+FFFD
Semi == 59         \* ';'
Bell == 7          \* a control character below 0x20
LF == 10           \* '\n'
Tab == 9           \* '\t'
CR == 13           \* '\r'
LetterA == 97      \* 'a'
LetterL == 108     \* 'l'
LetterM == 109     \* 'm'
LetterP == 112     \* 'p'
LetterT == 116     \* 't'
LessThan == 60     \* '<'
MuchLess == 8810   \* U+226A, the character of &ll;

\* html.entities.html5, restricted to the names that can be spelled with the
\* letters a, l, m, p and t: the only ones a text of the model can contain.
html5 ==
    { << <<LetterA, LetterM, LetterP>>, Amp >>,
      << <<LetterA, LetterM, LetterP, Semi>>, Amp >>,
      << <<LetterA, LetterP, Semi>>, 8776 >>,
      << <<LetterL, LetterA, LetterP, Semi>>, 10885 >>,
      << <<LetterL, LetterA, LetterT, Semi>>, 10923 >>,
      << <<LetterL, LetterL, Semi>>, MuchLess >>,
      << <<LetterL, LetterT>>, LessThan >>,
      << <<LetterL, LetterT, Semi>>, LessThan >>,
      << <<LetterM, LetterA, LetterL, LetterT, Semi>>, 10016 >>,
      << <<LetterM, LetterA, LetterP, Semi>>, 8614 >>,
      << <<LetterM, LetterP, Semi>>, 8723 >>,
      << <<LetterP, LetterM, Semi>>, 177 >> }

InHtml5(name) == \E e \in html5 : e[1] = name
Html5Of(name) == (CHOOSE e \in html5 : e[1] = name)[2]

\* The characters that end a name in html._charref: [^\t\n\f <&#;]{1,32}
NameStop == {Tab, LF, 12, 32, LessThan, Amp, Hash, Semi}

DigitRun(n) == 0 - n
IsDigitRun(c) == c < 0
RunLen(c) == 0 - c

\* sys.int_info.default_max_str_digits: int() of a longer decimal string
\* raises ValueError.
default_max_str_digits == 4300

RECURSIVE Ones(_)
\* The number written as n digits '1'.
Ones(n) == IF n = 0 THEN 0 ELSE 10 * Ones(n - 1) + 1

\* html._replace_charref for '#' followed by n digits '1': 1 and 11 are
\* invalid code points (dropped), eight digits and more exceed 0x10FFFF.
NumericCharref(n) ==
    IF n >= 8 THEN <<Replacement>>
    ELSE IF n <= 2 THEN <<>>
    ELSE <<Ones(n)>>

\* Whether s[i..] starts with '&#' and a run of digits.
NumericAt(s, i) ==
    i + 2 <= Len(s) /\ s[i] = Amp /\ s[i + 1] = Hash /\ IsDigitRun(s[i + 2])

RECURSIVE NameLen(_, _, _)
\* The length of the name that starts at s[i], at most left characters.
NameLen(s, i, left) ==
    IF left = 0 \/ i > Len(s) \/ s[i] \in NameStop THEN 0
    ELSE 1 + NameLen(s, i + 1, left - 1)

\* html._replace_charref for a named reference s (without its '&')
ReplaceCharref(s) ==
    IF InHtml5(s) THEN <<Html5Of(s)>>
    ELSE LET xs == {x \in 2..(Len(s) - 1) : InHtml5(SubSeq(s, 1, x))}
         IN  IF xs # {}
             THEN LET x == CHOOSE y \in xs : \A z \in xs : z <= y
                  IN  <<Html5Of(SubSeq(s, 1, x))>> \o SubSeq(s, x + 1, Len(s))
             ELSE <<Amp>> \o s

RECURSIVE UnescapeFrom(_, _)
\* html.unescape from position i on: each match of the pattern is replaced,
\* and what replaces it is not scanned again.
UnescapeFrom(s, i) ==
    IF i > Len(s) THEN <<>>
    ELSE IF s[i] # Amp THEN <<s[i]>> \o UnescapeFrom(s, i + 1)
    ELSE IF NumericAt(s, i)
    THEN LET semi == i + 3 <= Len(s) /\ s[i + 3] = Semi
         IN  NumericCharref(RunLen(s[i + 2]))
                 \o UnescapeFrom(s, IF semi THEN i + 4 ELSE i + 3)
    ELSE LET n == NameLen(s, i + 1, 32)
             semi == i + 1 + n <= Len(s) /\ s[i + 1 + n] = Semi
             ref == SubSeq(s, i + 1, i + n) \o (IF semi THEN <<Semi>> ELSE <<>>)
         IN  IF n = 0 THEN <<Amp>> \o UnescapeFrom(s, i + 1)
             ELSE ReplaceCharref(ref) \o UnescapeFrom(s, i + 1 + Len(ref))

\* html.unescape(content), line 389
HtmlUnescape(s) == UnescapeFrom(s, 1)

\* Whether html.unescape(s) raises: some decimal reference has more digits
\* than int() converts.
UnescapeRaises(s) ==
    \E i \in DOMAIN s :
        NumericAt(s, i) /\ RunLen(s[i + 2]) > default_max_str_digits

PrintableFrom32(ch) == IsDigitRun(ch) \/ ch >= 32

\* Lines 392 and 116: keep ch when ord(ch) >= 32 or ch in '\n\t\r'
Printable(ch) == IsDigitRun(ch) \/ ch >= 32 \/ ch \in {LF, Tab, CR}
StripControl(s) == SelectSeq(s, Printable)

-----------------------------------------------------------------------------
(***************************************************************************)
(* BinancePublisher: results, exceptions and the pieces of                 *)
(* push_to_binance and push_recommendation.                                *)
(***************************************************************************)
\* How a call ended: with a returned value or with an exception.
Returned(v) == [kind |-> "returned", value |-> v, error |-> None]
Raises(e) == [kind |-> "raised", value |-> None, error |-> e]
NoResult == [kind |-> "none", value |-> None, error |-> None]

\* _preprocess_content(content) for a str, lines 366-399: the text it
\* returns, or the exception that leaves it.
PreprocessContent(text) ==
    IF text = <<>> THEN Returned(<<>>)
    ELSE IF UnescapeRaises(text)
    THEN Raises(Exc("ValueError", "Exceeds the limit (4300 digits) for integer string conversion"))
    ELSE Returned(StripControl(HtmlUnescape(text)))

\* WXPublisher._preprocess_article(article) for a str, lines 80-123: the
\* encode/decode probe of line 96 leaves a str as it is, then the same two
\* conversions.
PreprocessArticle(text) ==
    IF text = <<>> THEN Returned(<<>>)
    ELSE IF UnescapeRaises(text)
    THEN Raises(Exc("ValueError", "Exceeds the limit (4300 digits) for integer string conversion"))
    ELSE Returned(StripControl(HtmlUnescape(text)))

\* playwright.sync_api.TimeoutError and any other exception of a step
PlaywrightTimeoutError == Exc("TimeoutError", "Timeout exceeded")
PlaywrightError == Exc("Error", "Target closed")
NoExc == None

\* What a Playwright call can do: succeed, time out, raise something else.
StepOutcomes == {"ok", "timeout", "error"}
ExcOf(o) == IF o = "timeout" THEN PlaywrightTimeoutError ELSE PlaywrightError

\* One entry of the log: the step taken and how it went.
Ev(op, out) == [op |-> op, out |-> out]

\* _save_debug_screenshot(page, tag), lines 337-348: a capture that fails is
\* logged and swallowed, so the step leaves no trace but the attempt.
DebugScreenshot(tag) == Ev("debug_screenshot", tag)

\* _save_error_screenshot(page), lines 350-364: the path saved, or "" when
\* there is no page or the capture failed.
ErrorScreenshotPath == "error_screenshot.png"
SaveErrorScreenshot(has_page, captured) ==
    IF ~has_page THEN [event |-> Ev("error_screenshot", "no page"), path |-> ""]
    ELSE IF captured THEN [event |-> Ev("error_screenshot", "saved"),
                           path |-> ErrorScreenshotPath]
    ELSE [event |-> Ev("error_screenshot", "failed"), path |-> ""]

\* Lines 129-132; "用户未登录，请先在Chrome浏览器中登录币安账号"
NotLoggedInResult ==
    [status |-> "error", message |-> "not logged in: log in to Binance in Chrome first"]

\* Lines 199-202; "成功推送到币安社区"
SuccessResult == [status |-> "success", message |-> "pushed to Binance Square"]

InnerExceptReportsSuccess(e, screenshot_path) == SuccessResult

\* Lines 204-220: the two except clauses of the inner try.
\*   "页面元素等待超时: {e}" and "推送失败: {e}"
InnerExcept(e, screenshot_path) ==
    IF e.type = "TimeoutError"
    THEN [status |-> "error", message |-> "element wait timed out: " \o e.msg,
          screenshot |-> screenshot_path]
    ELSE [status |-> "error", message |-> "push failed: " \o e.msg,
          screenshot |-> screenshot_path]

\* Lines 231-236: the except clause of the outer try; "连接浏览器失败: {e}"
OuterExcept(e) ==
    Returned([status |-> "error", message |-> "browser connection failed: " \o e.msg])

\* The branch of line 126 taken whatever the verdict.
LoginGateOpen(logged_in) == "editor_wait"

\* Line 126: where the pipeline goes after the login check.
LoginGate(logged_in) == IF ~logged_in THEN "not_logged_in" ELSE "editor_wait"

\* A close placed after the success return instead of in the finally clause.
ShouldCloseOnSuccess(has_browser, returning) ==
    has_browser /\ returning # None /\ returning.status = "success"

\* Line 223: whether the finally clause closes the browser.
ShouldClose(has_browser, returning) == has_browser

\* _is_chrome_running(), lines 238-247: a scan that raises gives False.
IsChromeRunning(running, scan_ok) == IF scan_ok THEN running ELSE FALSE

\* A fallback that types the content whatever the editor holds.
TypingFallbackAlways(has_text) == TRUE

\* Line 171: the content is typed when the editor holds no text.
TypingFallback(has_text) == ~has_text

\* A guard that terminates the browser without looking at the detection.
TerminationAlwaysAttempted(is_chrome_running) == TRUE

\* Line 63: the guard terminates the browser when the detection saw one.
TerminationAttempted(is_chrome_running) == is_chrome_running

\* _close_all_chrome_instances(), lines 249-267, given whether issuing the
\* kill raised and what the scan after the settle delay finds.
CloseAllChromeInstances(kill_ok, running_after, scan_ok) ==
    IF ~kill_ok THEN FALSE ELSE ~IsChromeRunning(running_after, scan_ok)

\* Lines 74-86: the profile directory the session is bound to.
UserDataDir == "User Data"
ProfileDir(name) == UserDataDir \o "/" \o name
ProfilePathWithoutDefault(profile_name, existing) ==
    IF ProfileDir(profile_name) \in existing THEN ProfileDir(profile_name)
    ELSE UserDataDir

ProfilePath(profile_name, existing) ==
    IF ProfileDir(profile_name) \in existing THEN ProfileDir(profile_name)
    ELSE IF ProfileDir("Default") \in existing THEN ProfileDir("Default")
    ELSE UserDataDir

\* The entry of the log for a launch: the directory the session is bound
\* to, with the configured profile name and the directories found on disk.
Launched(profile_name, existing) ==
    [op |-> "launch", out |-> ProfilePath(profile_name, existing),
     profile_name |-> profile_name, existing |-> existing]

\* str(None), the text Python gives for a JSON null.
StrNone == <<78, 111, 110, 101>>

\* Lines 411-415: the recommendation of a file that holds JSON, converted
\* with str() when it is not a string.  The state "json_null" is a file
\* whose recommendation is null.
RecommendationText(file) ==
    IF file.state = "json_null" THEN StrNone ELSE file.recommendation

\* What push_recommendation finds when it opens the file.
FoundInFile(file) ==
    IF file.state = "json_null" THEN "null"
    ELSE IF file.state # "json" THEN file.state
    ELSE IF file.recommendation = <<>> THEN "empty"
    ELSE "text"

\* push_recommendation, lines 403-435: what reading the recommendation file
\* gives.  A file is "missing", "malformed" (not JSON), "unreadable" (any
\* other exception while reading it), or holds a recommendation text.
\*   "未找到投资建议文件", "投资建议文件格式错误", "投资建议内容为空"
ReadRecommendation(file) ==
    IF file.state = "missing"
    THEN Returned([status |-> "error", message |-> "recommendation file not found"])
    ELSE IF file.state = "malformed"
    THEN Returned([status |-> "error", message |-> "recommendation file malformed"])
    ELSE IF file.state = "unreadable"
    THEN Raises(Exc("OSError", "cannot read"))
    ELSE IF RecommendationText(file) = <<>>
    THEN Returned([status |-> "error", message |-> "recommendation is empty"])
    ELSE NoResult

\* Lines 444-449: the except clause of push_recommendation;
\* "推送投资建议失败: {e}"
PushRecommendationExcept(r) ==
    IF r.kind = "raised"
    THEN Returned([status |-> "error",
                   message |-> "pushing the recommendation failed: " \o r.error.msg])
    ELSE r

\* The inputs of the browser engine.
Texts ==
    { <<>>, <<Bell>>, <<LetterL, Bell>>, <<Amp, LetterL, LetterT>>,
      <<Amp, Hash, DigitRun(default_max_str_digits), Semi>>,
      <<Amp, Hash, DigitRun(default_max_str_digits + 1), Semi>> }
Files ==
    {[state |-> s] : s \in {"missing", "malformed", "unreadable", "json_null"}}
        \cup {[state |-> "json", recommendation |-> t] : t \in Texts}
ProfileNames == {"Default", "Profile 1"}
ProfileDirs == {ProfileDir(n) : n \in ProfileNames}

\* The pages the login check of an invocation may find: one selector
\* matching one element.
BrowserPages ==
    {[s \in Selectors |-> IF s = s1 THEN <<v>> ELSE <<>>] :
        s1 \in Selectors, v \in BOOLEAN}

\* No invocation of the browser engine under way.
BrowserIdle ==
    /\ pc = "idle"
    /\ caller = "none"
    /\ content = <<>>
    /\ browser = FALSE
    /\ page = FALSE
    /\ session = "none"
    /\ exc = NoExc
    /\ ret = None
    /\ result = NoResult
    /\ rec_result = NoResult
    /\ log = <<>>

-----------------------------------------------------------------------------
(***************************************************************************)
(* WXPublisher: the uploads.  An operation is given e, the engine's fields *)
(* as it starts, and what each endpoint it may ask would answer; it gives  *)
(* its outcome, the requests it sent in order, the number of credential    *)
(* exchanges it made and the engine's fields as it ends.                   *)
(***************************************************************************)
Engine(tok, id, secret, t) ==
    [token |-> tok, app_id |-> id, app_secret |-> secret, now |-> t]

\* await self.ensure_access_token() inside an operation
TokenStep(e, treply, d) ==
    EnsureAccessToken(e.token, e.app_id, e.app_secret, e.now, treply, d)

EngineAfter(tk) == Engine(tk.token, tk.app_id, tk.app_secret, tk.now)

OpRaised(error, sent, exchanges, e) ==
    [outcome |-> "raised", value |-> None, error |-> error, sent |-> sent,
     exchanges |-> exchanges, eng |-> e]

OpReturned(value, sent, exchanges, e) ==
    [outcome |-> "returned", value |-> value, error |-> None, sent |-> sent,
     exchanges |-> exchanges, eng |-> e]

\* _md_to_html and _apply_template (lines 125-371): the HTML document built
\* around an article; an empty article is converted to the empty string
\* before the template is applied.
MdToHtml(article) == IF article = <<>> THEN <<>> ELSE [html_of |-> article]
ApplyTemplate(html_content, title) == [template_around |-> html_content, title |-> title]

\* Media ids of drafts and of images, as the platform hands them out.
DraftIds == {"d1", "d2"}
ImageIds == {"m1"}

\* Line 444: the media id upload_image gives for an empty URL.
BuiltinMediaId == "SwCSRjrdGJNaWioRQUHzgF68BHFkSlb_f5xlTquvsOSA6Yy0ZRjFo0aW9eS3JJu_"

\* Answers of draft/add.
DraftJsons ==
    {[media_id |-> d] : d \in DraftIds}
    \cup {[errcode |-> 0, errmsg |-> "ok", media_id |-> "d1"]}
    \cup {[errcode |-> 40001, errmsg |-> "platform says no"]}
    \cup {[errcode |-> 40001]}
    \cup {[item |-> "none"]}

DraftReplies == {HttpFailure} \cup {HttpJson(j) : j \in DraftJsons}

\* Answers of material/add_material.
ImageJsons ==
    {[media_id |-> m, url |-> "http://mmbiz/pic"] : m \in ImageIds}
    \cup {[errcode |-> 0, errmsg |-> "ok", media_id |-> "m1"]}
    \cup {[errcode |-> 40004, errmsg |-> "invalid media type"]}
    \cup {[url |-> "http://mmbiz/pic"]}

ImageReplies == {HttpFailure} \cup {HttpJson(j) : j \in ImageJsons}

\* Answers of media/uploadimg.
ContentImageJsons ==
    {[url |-> "http://mmbiz/pic"],
     [errcode |-> 0, errmsg |-> "ok", url |-> "http://mmbiz/pic"],
     [errcode |-> 40004, errmsg |-> "invalid media type"],
     [media_id |-> "m1"]}

ContentImageReplies == {HttpFailure} \cup {HttpJson(j) : j \in ContentImageJsons}

\* response['errmsg'] inside the message of an upload failure: the message,
\* or the KeyError of a response that has none.
UploadFailed(prefix, j) ==
    IF "errmsg" \in DOMAIN j
    THEN Exc("Exception", prefix \o j.errmsg)
    ELSE Exc("KeyError", "'errmsg'")

\* upload_draft(article, title, digest, media_id), lines 373-439.
\*   "上传草稿失败: {errmsg}"
UploadDraft(e, treply, d, reply, article, title, digest, media_id) ==
    LET tk == TokenStep(e, treply, d)
        e1 == EngineAfter(tk)
        a == PreprocessArticle(article)
        t == IF title # <<>> THEN PreprocessArticle(title) ELSE Returned(title)
        g == IF digest # <<>> THEN PreprocessArticle(digest) ELSE Returned(digest)
        j == reply.json
    IN  IF tk.outcome = "raised"                       \* line 375
        THEN OpRaised(tk.error, <<>>, tk.exchanges, e1)
        ELSE IF a.kind = "raised"                      \* line 379
        THEN OpRaised(a.error, <<>>, tk.exchanges, e1)
        ELSE IF t.kind = "raised"                      \* line 391
        THEN OpRaised(t.error, <<>>, tk.exchanges, e1)
        ELSE IF g.kind = "raised"                      \* line 393
        THEN OpRaised(g.error, <<>>, tk.exchanges, e1)
        ELSE
          LET sent == SendOnce(Request("draft/add", tk.value,
                                 [content |-> ApplyTemplate(MdToHtml(a.value), title),
                                  title |-> t.value,
                                  digest |-> g.value,
                                  thumb_media_id |-> media_id]), reply)
          IN  IF Raised(reply)                         \* lines 417-427
              THEN OpRaised(TransportError, sent, tk.exchanges, e1)
              ELSE IF "errcode" \in DOMAIN j           \* lines 432-433
              THEN OpRaised(UploadFailed("upload draft failed: ", j), sent,
                            tk.exchanges, e1)
              ELSE IF "media_id" \notin DOMAIN j       \* line 435
              THEN OpRaised(Exc("KeyError", "'media_id'"), sent, tk.exchanges, e1)
              ELSE OpReturned([media_id |-> j.media_id], sent, tk.exchanges, e1)

\* An upload_image that has no shortcut for the empty URL.
NoImageNeverGiven(image_url) == FALSE

\* Line 443: not image_url
NoImageGiven(image_url) == image_url = ""

\* upload_image(image_url), lines 441-463; fetched tells whether the
\* download of line 446 succeeds.  "上传图片失败: {errmsg}"
UploadImage(e, image_url, fetched, treply, d, reply) ==
    LET tk == TokenStep(e, treply, d)
        e1 == EngineAfter(tk)
        fetch == Request("image", "", image_url)
        sent == <<fetch>> \o SendOnce(Request("material/add_material", tk.value,
                                              [type |-> "image"]), reply)
        j == reply.json
    IN  IF NoImageGiven(image_url)                     \* lines 443-444
        THEN OpReturned(BuiltinMediaId, <<>>, 0, e)
        ELSE IF ~fetched                               \* line 446
        THEN OpRaised(TransportError, <<fetch>>, 0, e)
        ELSE IF tk.outcome = "raised"                  \* line 447
        THEN OpRaised(tk.error, <<fetch>>, tk.exchanges, e1)
        ELSE IF Raised(reply)                          \* line 454
        THEN OpRaised(TransportError, sent, tk.exchanges, e1)
        ELSE IF "errcode" \in DOMAIN j                 \* lines 456-457
        THEN OpRaised(UploadFailed("upload image failed: ", j), sent,
                      tk.exchanges, e1)
        ELSE IF "media_id" \notin DOMAIN j             \* line 459
        THEN OpRaised(Exc("KeyError", "'media_id'"), sent, tk.exchanges, e1)
        ELSE OpReturned(j.media_id, sent, tk.exchanges, e1)

\* upload_content_image(image_url, image_buffer), lines 465-491; has_buffer
\* tells whether a buffer was passed.
\*   "图片URL不能为空", "上传图文消息图片失败: {errmsg}"
UploadContentImage(e, image_url, has_buffer, fetched, treply, d, reply) ==
    LET tk == TokenStep(e, treply, d)
        e1 == EngineAfter(tk)
        fetch == IF has_buffer THEN <<>> ELSE <<Request("image", "", image_url)>>
        sent == fetch \o SendOnce(Request("media/uploadimg", tk.value,
                                          [type |-> "image"]), reply)
        j == reply.json
    IN  IF image_url = ""                              \* lines 467-468
        THEN OpRaised(Exc("Exception", "image URL must not be empty"), <<>>, 0, e)
        ELSE IF tk.outcome = "raised"                  \* line 470
        THEN OpRaised(tk.error, <<>>, tk.exchanges, e1)
        ELSE IF ~has_buffer /\ ~fetched                \* line 477
        THEN OpRaised(TransportError, fetch, tk.exchanges, e1)
        ELSE IF Raised(reply)                          \* line 482
        THEN OpRaised(TransportError, sent, tk.exchanges, e1)
        ELSE IF "errcode" \in DOMAIN j                 \* lines 484-485
        THEN OpRaised(UploadFailed("upload content image failed: ", j), sent,
                      tk.exchanges, e1)
        ELSE IF "url" \notin DOMAIN j                  \* line 487
        THEN OpRaised(Exc("KeyError", "'url'"), sent, tk.exchanges, e1)
        ELSE OpReturned(j.url, sent, tk.exchanges, e1)

-----------------------------------------------------------------------------
(***************************************************************************)
(* WXPublisher: publish, push_recommendation, validate_ip_whitelist.       *)
(***************************************************************************)
\* Values of the DIRECT_PUBLISH configuration key (os.getenv, '' when unset).
FlagValues == {"", "true", "True", "false"}

\* str.lower() on a flag value
Lower(flag) == IF flag = "True" THEN "true" ELSE flag

DirectPublishEnabledExact(flag) == flag = "true"

\* Line 525: direct_publish and direct_publish.lower() == "true"
DirectPublishEnabled(flag) == flag # "" /\ Lower(flag) = "true"

\* Lines 534 and 542: f"https://mp.weixin.qq.com/s/{draft['media_id']}"
ArticleUrl(media_id) == "https://mp.weixin.qq.com/s/" \o media_id

SubmitThumbnail(draft_id, media_id) == media_id

\* Line 526: the media id handed to direct_publish is the draft's.
SubmitMediaId(draft_id, media_id) == draft_id

\* The outcome of publish, with the draft its upload_draft call created
\* ("" when it created none).
WithDraft(r, draft) ==
    [outcome |-> r.outcome, value |-> r.value, error |-> r.error, sent |-> r.sent,
     exchanges |-> r.exchanges, eng |-> r.eng, draft |-> draft]

PublishExceptSwallow(error, sent, exchanges, e) ==
    OpReturned([status |-> "failed", platform |-> "weixin"], sent, exchanges, e)

\* Lines 545-547: the except clause of publish logs the error and raises it
\* again.
PublishExcept(error, sent, exchanges, e) == OpRaised(error, sent, exchanges, e)

\* An except clause that deletes the draft before it raises.
DraftDeletedOnFailure(draft_id) == ""

\* Lines 526 and 545-547: when direct_publish raises, the except clause of
\* publish logs and raises; the draft uploaded at line 521 stays.
DraftLeftBehind(draft_id) == draft_id

\* publish(article, title, digest, media_id), lines 493-547, after its
\* upload_draft call ended as up; tk2 and preply are what the token step
\* and the submit endpoint of direct_publish give.
PublishAfterDraft(up, flag, media_id, tk2, preply) ==
    IF up.outcome = "raised"                           \* line 521, lines 545-547
    THEN WithDraft(PublishExcept(up.error, up.sent, up.exchanges, up.eng), "")
    ELSE IF DirectPublishEnabled(flag)
    THEN LET dp == DirectPublish(tk2, preply, SubmitMediaId(up.value.media_id, media_id))
             e2 == EngineAfter(tk2)
             sent == up.sent \o dp.sent
             exchanges == up.exchanges + tk2.exchanges
         IN  IF dp.outcome = "raised"                  \* line 526, lines 545-547
             THEN WithDraft(PublishExcept(dp.error, sent, exchanges, e2),
                            DraftLeftBehind(up.value.media_id))
             ELSE WithDraft(OpReturned(                \* lines 528-535
                      [publishId |-> dp.value.publish_id,
                       draftId |-> up.value.media_id,
                       status |-> "publishing",
                       publishedAt |-> e2.now,
                       platform |-> "weixin",
                       url |-> ArticleUrl(up.value.media_id)],
                      sent, exchanges, e2), up.value.media_id)
    ELSE WithDraft(OpReturned(                         \* lines 537-543
             [publishId |-> up.value.media_id,
              status |-> "draft",
              publishedAt |-> up.eng.now,
              platform |-> "weixin",
              url |-> ArticleUrl(up.value.media_id)],
             up.sent, up.exchanges, up.eng), up.value.media_id)

\* Lines 497-521: the article is preprocessed and the draft uploaded.
PublishDraft(e, treply, d, dreply, article, title, digest, media_id) ==
    LET a == PreprocessArticle(article)
    IN  IF a.kind = "raised"                           \* line 501, lines 545-547
        THEN OpRaised(a.error, <<>>, 0, e)
        ELSE UploadDraft(e, treply, d, dreply, a.value, title, digest, media_id)

\* Line 742: the image push_recommendation uploads.
CoverImageUrl ==
    "https://gips0.baidu.com/it/u=1690853528,2506870245&fm=3028&app=3028&f=JPEG&fmt=auto?w=1024&h=1024"

\* Lines 718-719: the default title and digest, "投资建议分析报告"
DefaultTitle == <<LetterT>>

\* Lines 699-733: what push_recommendation has in hand before it uploads
\* anything: an error result to return, an exception for its except clause,
\* or the preprocessed fields.
\*   "未找到投资建议文件", "投资建议文件格式错误", "投资建议内容为空"
ReadRecord(file) ==
    IF file.state = "missing"
    THEN Returned([status |-> "error", message |-> "recommendation file not found"])
    ELSE IF file.state = "malformed"
    THEN Returned([status |-> "error", message |-> "recommendation file malformed"])
    ELSE IF file.state = "unreadable"
    THEN Raises(Exc("OSError", "cannot read"))
    ELSE IF file.state = "json_null"                   \* line 722: not None
    THEN Returned([status |-> "error", message |-> "recommendation is empty"])
    ELSE IF file.recommendation = <<>>
    THEN Returned([status |-> "error", message |-> "recommendation is empty"])
    ELSE LET c == PreprocessArticle(file.recommendation)
             t == PreprocessArticle(Get(file, "title", DefaultTitle))
             g == PreprocessArticle(Get(file, "digest", DefaultTitle))
         IN  IF c.kind = "raised" THEN c
             ELSE IF t.kind = "raised" THEN t
             ELSE IF g.kind = "raised" THEN g
             ELSE [kind |-> "fields", content |-> c.value, title |-> t.value,
                   digest |-> g.value, image_url |-> Get(file, "image_url", "")]

\* Lines 756-761: the except clause of push_recommendation;
\* "推送投资建议失败: {error}"
RecommendationFailed(error) ==
    [status |-> "error", message |-> "pushing the recommendation failed: " \o error.msg]

\* The URL push_recommendation passes to upload_image.
UploadedImageUrl(image_url) == CoverImageUrl

\* push_recommendation, lines 693-761, from the record it read, the outcome
\* img of its upload_image call and the outcome pub of its publish call.
PushRecommendationWx(e, rec, img, pub) ==
    IF rec.kind = "returned"
    THEN WithDraft(OpReturned(rec.value, <<>>, 0, e), "")
    ELSE IF rec.kind = "raised"
    THEN WithDraft(OpReturned(RecommendationFailed(rec.error), <<>>, 0, e), "")
    ELSE IF img.outcome = "raised"
    THEN WithDraft(OpReturned(RecommendationFailed(img.error), img.sent,
                              img.exchanges, img.eng), "")
    ELSE IF pub.outcome = "raised"
    THEN WithDraft(OpReturned(RecommendationFailed(pub.error), img.sent \o pub.sent,
                              img.exchanges + pub.exchanges, pub.eng), pub.draft)
    ELSE WithDraft(OpReturned(pub.value, img.sent \o pub.sent,
                              img.exchanges + pub.exchanges, pub.eng), pub.draft)

\* Messages of the token endpoint.
CredentialMsg == "invalid credential rid: 640164a"
InvalidIpLastMsg == "invalid ip 1.2.3.4"
InvalidAppIdMsg == "invalid appid"

\* Line 687: "40164" in str(error).  The text is that of line 68, the prefix
\* followed by json.dumps(response): the digits occur in it when the error
\* code is 40164 or when the platform's message holds them.
Has40164(error, j) ==
    /\ error.type = "Exception"
    /\ \/ "errcode" \in DOMAIN j /\ j.errcode = 40164
       \/ "errmsg" \in DOMAIN j /\ j.errmsg = CredentialMsg

\* Lines 689-690: re.search(r"invalid ip ([^ ]+)", error_msg), group 1, or
\* "未知IP".  The group runs to the next space, or to the end of the text
\* when the address is the last word of the message.
InvalidIpGroup(j) ==
    IF "errmsg" \in DOMAIN j /\ j.errmsg = InvalidIpMsg THEN "1.2.3.4"
    ELSE IF "errmsg" \in DOMAIN j /\ j.errmsg = InvalidIpLastMsg THEN "1.2.3.4\"}"
    ELSE "unknown IP"

\* validate_ip_whitelist(), lines 680-691; True is written "True".
ValidateIpWhitelist(e, treply, d) ==
    LET tk == TokenStep(e, treply, d)
        e1 == EngineAfter(tk)
    IN  IF tk.outcome = "returned"
        THEN OpReturned("True", <<>>, tk.exchanges, e1)
        ELSE IF Has40164(tk.error, treply.json)
        THEN OpReturned(InvalidIpGroup(treply.json), <<>>, tk.exchanges, e1)
        ELSE OpRaised(tk.error, <<>>, tk.exchanges, e1)

-----------------------------------------------------------------------------
(***************************************************************************)
(* The API engine as a state machine: one action per public operation,     *)
(* called by the engine's user one at a time; the clock moves in between.  *)
(***************************************************************************)
\* Statuses after which a publish job no longer changes.
FinalStatuses ==
    {"published", "published_emoji_escaped",
     "failed_original", "failed_general", "failed_audit"}

\* No caller is inside ensure_access_token; no text is being normalized.
NoCallers == [on |-> FALSE]
NoNorm == [stage |-> "none"]

NoCall ==
    [op |-> "none", arg |-> None, outcome |-> "none", value |-> None, error |-> None,
     exchanges |-> 0, sent |-> <<>>, reply |-> None,
     pre_token |-> NoToken, pre_now |-> 0, final_before |-> FALSE]

\* The engine's fields after WXPublisher.__init__.
ApiIdle ==
    /\ now = 0
    /\ access_token = NoToken          \* line 39
    /\ app_id = None                   \* line 40
    /\ app_secret = None               \* line 41
    /\ last = NoCall
    /\ finalSeen = {}
    /\ drafts = {}
    /\ conc = NoCallers
    /\ norm = NoNorm

InitApi ==
    /\ ApiIdle
    /\ LoginIdle
    /\ BrowserIdle
    /\ chrome = FALSE

\* The state the engine's own fields are left in by a token call.
TokenEffect(tk) ==
    /\ access_token' = tk.token
    /\ app_id' = tk.app_id
    /\ app_secret' = tk.app_secret
    /\ now' = tk.now

\* The caller takes the result of the call that finished and goes on.
Continue ==
    /\ last # NoCall
    /\ last' = NoCall
    /\ UNCHANGED <<now, access_token, app_id, app_secret, finalSeen>>
    /\ UNCHANGED <<drafts, conc, normVars, loginVars, browserVars>>

ClockTick ==
    \E d \in ClockSteps :
        /\ last = NoCall
        /\ now + d <= MaxNow
        /\ now' = now + d
        /\ UNCHANGED <<access_token, app_id, app_secret, last, finalSeen>>
        /\ UNCHANGED <<drafts, conc, normVars, loginVars, browserVars>>

CallEnsureAccessToken ==
    \E reply \in TokenReplies, d \in ExchangeDelays :
        LET tk == EnsureAccessToken(access_token, app_id, app_secret, now, reply, d)
        IN  /\ last = NoCall
            /\ now + d <= MaxNow
            /\ TokenEffect(tk)
            /\ last' = [op |-> "ensure_access_token", arg |-> None,
                        outcome |-> tk.outcome, value |-> tk.value, error |-> tk.error,
                        exchanges |-> tk.exchanges, sent |-> <<>>,
                        reply |-> IF tk.exchanges = 0 THEN None ELSE reply,
                        pre_token |-> access_token, pre_now |-> now,
                        final_before |-> FALSE]
            /\ UNCHANGED finalSeen
            /\ UNCHANGED <<drafts, conc, normVars, loginVars, browserVars>>

CallDirectPublish ==
    \E media_id \in MediaIds, treply \in TokenReplies, d \in ExchangeDelays,
       reply \in PublishReplies :
        LET tk == EnsureAccessToken(access_token, app_id, app_secret, now, treply, d)
            r == DirectPublish(tk, reply, media_id)
        IN  /\ last = NoCall
            /\ now + d <= MaxNow
            /\ TokenEffect(tk)
            /\ last' = [op |-> "direct_publish", arg |-> media_id,
                        outcome |-> r.outcome, value |-> r.value, error |-> r.error,
                        exchanges |-> tk.exchanges, sent |-> r.sent,
                        reply |-> IF r.sent = <<>> THEN None ELSE reply,
                        treply |-> IF tk.exchanges = 0 THEN HttpFailure ELSE treply,
                        pre_token |-> None, pre_now |-> now,
                        final_before |-> FALSE]
            /\ UNCHANGED finalSeen
            /\ UNCHANGED <<drafts, conc, normVars, loginVars, browserVars>>

CallCheckPublishStatus ==
    \E publish_id \in PublishIds, treply \in TokenReplies, d \in ExchangeDelays,
       reply \in StatusReplies :
        LET tk == EnsureAccessToken(access_token, app_id, app_secret, now, treply, d)
            r == CheckPublishStatus(tk, reply, publish_id)
        IN  /\ last = NoCall
            /\ now + d <= MaxNow
            /\ TokenEffect(tk)
            /\ last' = [op |-> "check_publish_status", arg |-> publish_id,
                        outcome |-> r.outcome, value |-> r.value, error |-> r.error,
                        exchanges |-> tk.exchanges, sent |-> r.sent,
                        reply |-> IF r.sent = <<>> THEN None ELSE reply,
                        treply |-> IF tk.exchanges = 0 THEN HttpFailure ELSE treply,
                        pre_token |-> None, pre_now |-> now,
                        final_before |-> publish_id \in finalSeen]
            /\ finalSeen' =
                  IF r.outcome = "returned" /\ r.value.status \in FinalStatuses
                  THEN finalSeen \cup {publish_id} ELSE finalSeen
            /\ UNCHANGED <<drafts, conc, normVars, loginVars, browserVars>>

NextApi ==
    \/ Continue
    \/ ClockTick
    \/ CallEnsureAccessToken
    \/ CallDirectPublish
    \/ CallCheckPublishStatus

SpecApi == InitApi /\ [][NextApi]_vars

-----------------------------------------------------------------------------
(***************************************************************************)
(* The publish pipeline of the API engine as a state machine: the uploads, *)
(* publish, push_recommendation and validate_ip_whitelist, called one at a *)
(* time on one engine.                                                     *)
(***************************************************************************)
\* What the token endpoint may answer a pipeline call.
PipeTokenReplies ==
    { HttpFailure,
      HttpJson([access_token |-> "tokA", expires_in |-> 120]),
      HttpJson([access_token |-> "tokB", expires_in |-> 60]),
      HttpJson([errcode |-> 40164, errmsg |-> InvalidIpMsg]) }

IpTokenReplies ==
    PipeTokenReplies
    \cup { HttpJson([errcode |-> 40001, errmsg |-> CredentialMsg]),
           HttpJson([errcode |-> 40164, errmsg |-> InvalidIpLastMsg]),
           HttpJson([errcode |-> 40013, errmsg |-> InvalidAppIdMsg]),
           HttpJson([access_token |-> "tokA"]) }

\* The token endpoint is asked only when the cache does not serve the call.
TokenAnswers(e, replies) ==
    IF TokenIsFresh(e.token, e.now) THEN {HttpFailure} ELSE replies
TokenDelays(e) == IF TokenIsFresh(e.token, e.now) THEN {0} ELSE ExchangeDelays

\* What the submit endpoint may answer a publish call.
PipePublishReplies ==
    { HttpFailure,
      HttpJson([publish_id |-> "p1", msg_data_id |-> "d1"]),
      HttpJson([errcode |-> 0, errmsg |-> "ok", publish_id |-> "p2", msg_data_id |-> "d1"]),
      HttpJson([errcode |-> 53503, errmsg |-> "platform says no"]),
      HttpJson([msg_data_id |-> "d1"]) }

\* Articles, image URLs and recommendation files of the pipeline calls.
PipeTexts == { <<LetterL>>, <<Amp, Hash, DigitRun(default_max_str_digits + 1), Semi>> }
RecordImageUrl == "https://example.org/cover.png"
ImageUrls == {"", RecordImageUrl, CoverImageUrl}
WxFiles ==
    {[state |-> s] : s \in {"missing", "malformed", "unreadable", "json_null"}}
    \cup {[state |-> "json", recommendation |-> <<>>, image_url |-> RecordImageUrl]}
    \cup {[state |-> "json", recommendation |-> t, image_url |-> RecordImageUrl] :
             t \in PipeTexts}
    \cup {[state |-> "json", recommendation |-> <<LetterL>>, title |-> <<LetterA>>]}

ThisEngine == Engine(access_token, app_id, app_secret, now)

\* The engine's fields, the record of the call and the drafts after a call
\* that ended as r.
Finished(op, arg, r, draft, replies) ==
    /\ r.eng.now <= MaxNow
    /\ access_token' = r.eng.token
    /\ app_id' = r.eng.app_id
    /\ app_secret' = r.eng.app_secret
    /\ now' = r.eng.now
    /\ last' = [op |-> op, arg |-> arg, outcome |-> r.outcome, value |-> r.value,
                error |-> r.error, exchanges |-> r.exchanges, sent |-> r.sent,
                reply |-> replies, pre_token |-> access_token, pre_now |-> now,
                final_before |-> FALSE, draft |-> draft]
    /\ drafts' = IF draft = "" THEN drafts ELSE drafts \cup {draft}
    /\ UNCHANGED <<finalSeen, conc, normVars, loginVars, browserVars>>

\* The draft an upload_draft call has created.
DraftOf(up) == IF up.outcome = "returned" THEN up.value.media_id ELSE ""

CallUploadDraft ==
    /\ last = NoCall
    /\ \E article \in PipeTexts, media_id \in ImageIds,
          treply \in TokenAnswers(ThisEngine, PipeTokenReplies),
          d \in TokenDelays(ThisEngine), reply \in DraftReplies :
         LET r == UploadDraft(ThisEngine, treply, d, reply, article,
                              DefaultTitle, DefaultTitle, media_id)
         IN  Finished("upload_draft", [media_id |-> media_id], r, DraftOf(r),
                      [endpoint |-> IF r.sent = <<>> THEN HttpFailure ELSE reply])

CallUploadImage ==
    /\ last = NoCall
    /\ \E image_url \in ImageUrls, fetched \in BOOLEAN,
          treply \in TokenAnswers(ThisEngine, PipeTokenReplies),
          d \in TokenDelays(ThisEngine), reply \in ImageReplies :
         LET r == UploadImage(ThisEngine, image_url, fetched, treply, d, reply)
         IN  Finished("upload_image", [image_url |-> image_url], r, "",
                      [endpoint |-> IF Len(r.sent) < 2 THEN HttpFailure ELSE reply])

CallUploadContentImage ==
    /\ last = NoCall
    /\ \E image_url \in ImageUrls, has_buffer \in BOOLEAN, fetched \in BOOLEAN,
          treply \in TokenAnswers(ThisEngine, PipeTokenReplies),
          d \in TokenDelays(ThisEngine), reply \in ContentImageReplies :
         LET r == UploadContentImage(ThisEngine, image_url, has_buffer, fetched,
                                     treply, d, reply)
             asked == r.sent # <<>> /\ r.sent[Len(r.sent)].endpoint = "media/uploadimg"
         IN  Finished("upload_content_image", [image_url |-> image_url], r, "",
                      [endpoint |-> IF asked THEN reply ELSE HttpFailure])

\* publish from start to end: its upload_draft call and, when the flag asks
\* for it, its direct_publish call.
PublishRun(e, article, title, digest, media_id, flag, op, arg, before, rec, ireply) ==
    \E treply \in TokenAnswers(e, PipeTokenReplies), d \in TokenDelays(e),
       dreply \in DraftReplies :
      LET up == PublishDraft(e, treply, d, dreply, article, title, digest, media_id)
          submits == up.outcome = "returned" /\ DirectPublishEnabled(flag)
      IN  \E treply2 \in (IF submits THEN TokenAnswers(up.eng, PipeTokenReplies)
                                     ELSE {HttpFailure}),
             d2 \in (IF submits THEN TokenDelays(up.eng) ELSE {0}),
             preply \in (IF submits THEN PipePublishReplies ELSE {HttpFailure}) :
            LET tk2 == TokenStep(up.eng, treply2, d2)
                pub == PublishAfterDraft(up, flag, media_id, tk2, preply)
                r == IF op = "publish" THEN pub
                     ELSE PushRecommendationWx(e, rec, before, pub)
            IN  Finished(op, arg, r, r.draft,
                         [image |-> ireply,
                          draft |-> IF up.sent = <<>> THEN HttpFailure ELSE dreply,
                          submit |-> IF Len(pub.sent) < 2 THEN HttpFailure ELSE preply])

NoUpload == OpReturned("", <<>>, 0, ThisEngine)

CallPublish ==
    /\ last = NoCall
    /\ \E article \in PipeTexts, media_id \in ImageIds, flag \in FlagValues :
         PublishRun(ThisEngine, article, DefaultTitle, DefaultTitle, media_id, flag,
                    "publish", [media_id |-> media_id, flag |-> flag],
                    NoUpload, NoResult, HttpFailure)

CallPushRecommendation_Wx ==
    /\ last = NoCall
    /\ \E file \in WxFiles, flag \in FlagValues :
         LET rec == ReadRecord(file)
             arg == [file |-> file, flag |-> flag]
         IN  IF rec.kind # "fields"
             THEN LET r == PushRecommendationWx(ThisEngine, rec, NoUpload, NoUpload)
                  IN  Finished("push_recommendation", arg, r, r.draft,
                               [image |-> HttpFailure, draft |-> HttpFailure,
                                submit |-> HttpFailure])
             ELSE \E fetched \in BOOLEAN,
                     treply \in TokenAnswers(ThisEngine, PipeTokenReplies),
                     d \in TokenDelays(ThisEngine), ireply \in ImageReplies :
                    LET img == UploadImage(ThisEngine, UploadedImageUrl(rec.image_url),
                                           fetched, treply, d, ireply)
                    IN  IF img.outcome = "raised"
                        THEN LET r == PushRecommendationWx(ThisEngine, rec, img, NoUpload)
                             IN  Finished("push_recommendation", arg, r, r.draft,
                                          [image |-> HttpFailure, draft |-> HttpFailure,
                                submit |-> HttpFailure])
                        ELSE PublishRun(img.eng, rec.content, rec.title, rec.digest,
                                        img.value, flag, "push_recommendation", arg,
                                        img, rec, ireply)

CallValidateIpWhitelist ==
    /\ last = NoCall
    /\ \E treply \in TokenAnswers(ThisEngine, IpTokenReplies),
          d \in TokenDelays(ThisEngine) :
         LET r == ValidateIpWhitelist(ThisEngine, treply, d)
         IN  Finished("validate_ip_whitelist", None, r, "",
                      [token |-> IF r.exchanges = 0 THEN HttpFailure ELSE treply])

NextPublish ==
    \/ Continue
    \/ ClockTick
    \/ CallUploadDraft
    \/ CallUploadImage
    \/ CallUploadContentImage
    \/ CallPublish
    \/ CallPushRecommendation_Wx
    \/ CallValidateIpWhitelist

SpecPublish == InitApi /\ [][NextPublish]_vars

-----------------------------------------------------------------------------
(***************************************************************************)
(* _check_login_status as a function of the page: any page, one check.     *)
(***************************************************************************)
InitLogin ==
    /\ ApiIdle
    /\ BrowserIdle
    /\ chrome = FALSE
    /\ dom \in Pages
    /\ check = NoCheck

CallCheckLoginStatus ==
    \E r \in PageReads :
        /\ ~check.done
        /\ check' = [done |-> TRUE, title_login |-> r.title_login,
                     url_login |-> r.url_login, fail |-> r.fail,
                     logged_in |-> CheckLoginStatus(dom, r)]
        /\ UNCHANGED dom
        /\ UNCHANGED <<apiVars, normVars, browserVars>>

NextLogin == CallCheckLoginStatus

SpecLogin == InitLogin /\ [][NextLogin]_vars

-----------------------------------------------------------------------------
(***************************************************************************)
(* Properties of the login check (checked under SpecLogin).                *)
(***************************************************************************)
\* Some element matched by one of the selectors is visible.
SomeVisible(sels) ==
    \E s \in sels : \E i \in DOMAIN dom[s] : dom[s][i]

LoginPromptVisible == SomeVisible(Range(login_selectors))
UserIndicatorVisible == SomeVisible(Range(logged_in_selectors))
EditorPresent == Len(dom[editor_selector]) > 0
LoginKeyword == check.title_login \/ check.url_login
ComposeSurfaceVisible == SomeVisible({content_area_selector})

\* C2: the check returns the verdict of the first rule that matches, in the
\* order: visible login prompt => logged out, visible user indicator =>
\* logged in, editor present => logged in, login keyword in title or URL =>
\* logged out, visible compose surface => logged in, otherwise logged out
\* (stated for checks in which every page query answers).
C2_FirstMatchingRule ==
    (check.done /\ check.fail = 0) =>
        check.logged_in =
            IF LoginPromptVisible THEN FALSE
            ELSE IF UserIndicatorVisible THEN TRUE
            ELSE IF EditorPresent THEN TRUE
            ELSE IF LoginKeyword THEN FALSE
            ELSE IF ComposeSurfaceVisible THEN TRUE
            ELSE FALSE

-----------------------------------------------------------------------------
(***************************************************************************)
(* Properties of the API engine (checked under SpecApi).                   *)
(***************************************************************************)
EnsureFinished == last.op = "ensure_access_token"

\* The cache held a token expiring strictly more than the margin after the call.
CacheWasFresh ==
    /\ last.pre_token # NoToken
    /\ last.pre_token.expires_at > last.pre_now + SafetyMargin

\* The exchange of the last call gave both fields of a token.
ExchangeGaveToken ==
    /\ last.reply # None
    /\ last.reply.ok
    /\ {"access_token", "expires_in"} \subseteq DOMAIN last.reply.json

\* C6: ensure_access_token called with a cached token whose expires_at is
\* strictly more than the safety margin after now makes no network call,
\* leaves the cache (and the clock) as they were and returns the cached value.
C6_FreshTokenReused ==
    (EnsureFinished /\ CacheWasFresh) =>
        /\ last.exchanges = 0
        /\ last.sent = <<>>
        /\ access_token = last.pre_token
        /\ last.outcome = "returned"
        /\ last.value = last.pre_token.access_token

C6_Witness ==
    /\ EnsureFinished /\ CacheWasFresh
    /\ last.outcome = "returned"
    /\ now > 0

\* C7 as stated: on a cache miss ensure_access_token makes exactly one
\* exchange, replaces the cache with {value, expiresAt = now + expiresIn} of
\* that exchange and returns the new value.
C7_MissAlwaysRefreshes ==
    (EnsureFinished /\ ~CacheWasFresh) =>
        /\ last.exchanges = 1
        /\ last.outcome = "returned"
        /\ ExchangeGaveToken
        /\ access_token # NoToken
        /\ access_token.access_token = last.reply.json.access_token
        /\ access_token.expires_at = now + last.reply.json.expires_in
        /\ last.value = last.reply.json.access_token

\* C7 amended: on a cache miss ensure_access_token makes exactly one
\* exchange; when the exchange gives a token the cache becomes
\* {value, expiresAt = now + expiresIn} (now read as the token is stored) and
\* the new value is returned; when it gives none the call raises and the
\* cache is as it was.
C7_MissRefreshesOnce ==
    (EnsureFinished /\ ~CacheWasFresh) =>
        /\ last.exchanges = 1
        /\ IF ExchangeGaveToken
           THEN /\ last.outcome = "returned"
                /\ access_token # NoToken
                /\ access_token.access_token = last.reply.json.access_token
                /\ access_token.expires_at = now + last.reply.json.expires_in
                /\ last.value = last.reply.json.access_token
           ELSE /\ last.outcome = "raised"
                /\ access_token = last.pre_token

\* A miss on a token that sits exactly at the margin, refreshed.
C7_Witness ==
    /\ EnsureFinished
    /\ last.pre_token # NoToken
    /\ last.pre_token.expires_at = last.pre_now + SafetyMargin
    /\ ExchangeGaveToken
    /\ last.outcome = "returned"
    /\ access_token # last.pre_token

StatusFinished == last.op = "check_publish_status" /\ last.outcome = "returned"

\* C8: once a poll of a publish id has reported a final status, no later
\* poll of the same id reports publishing or unknown.
C8_StatusMonotonic ==
    (StatusFinished /\ last.final_before) =>
        last.value.status \notin {"publishing", "unknown"}

\* C9: check_publish_status reports 0 as published, 1 as publishing, 2 as
\* failed_original, 3 as failed_general, 4 as failed_audit, 5 as
\* published_emoji_escaped, and any other publish_status, or a response
\* without one, as unknown.
C9_StatusMapping ==
    StatusFinished =>
        LET j == last.reply.json
            has == "publish_status" \in DOMAIN j
        IN  /\ (has /\ j.publish_status = 0) => last.value.status = "published"
            /\ (has /\ j.publish_status = 1) => last.value.status = "publishing"
            /\ (has /\ j.publish_status = 2) => last.value.status = "failed_original"
            /\ (has /\ j.publish_status = 3) => last.value.status = "failed_general"
            /\ (has /\ j.publish_status = 4) => last.value.status = "failed_audit"
            /\ (has /\ j.publish_status = 5) => last.value.status = "published_emoji_escaped"
            /\ (~has \/ j.publish_status < 0 \/ j.publish_status > 5)
                  => last.value.status = "unknown"

C9_Witness ==
    /\ StatusFinished
    /\ "publish_status" \in DOMAIN last.reply.json
    /\ last.reply.json.publish_status = 99
    /\ last.value.status = "unknown"

\* direct_publish got an answer from the submit endpoint.
PublishAnswered ==
    /\ last.op = "direct_publish"
    /\ last.reply # None
    /\ last.reply.ok

\* C10: direct_publish turns the platform's answer into: for 53503 an error
\* saying the draft did not pass the publish check, for 53504 one saying to
\* use the web console, for 53505 one saying to save manually first, for any
\* other non-zero code an error with the raw code and the platform's
\* message, and for code 0 or no code a job with the returned publish id.
C10_PublishErrorMapping ==
    PublishAnswered =>
        LET j == last.reply.json
            code == IF "errcode" \in DOMAIN j THEN j.errcode ELSE 0
            text == IF code = 53503 THEN MsgFailedCheck
                    ELSE IF code = 53504 THEN MsgUseWebConsole
                    ELSE IF code = 53505 THEN MsgSaveFirst
                    ELSE IF "errmsg" \in DOMAIN j THEN j.errmsg ELSE MsgUnknown
        IN  IF code # 0
            THEN /\ last.outcome = "raised"
                 /\ last.error.msg =
                       "publish failed (code: " \o ToString(code) \o "): " \o text
            ELSE /\ last.outcome = "returned"
                 /\ last.value.publish_id =
                       (IF "publish_id" \in DOMAIN j THEN j.publish_id ELSE "")

C10_Witness ==
    /\ PublishAnswered
    /\ "errcode" \in DOMAIN last.reply.json
    /\ last.reply.json.errcode = 53503
    /\ last.outcome = "raised"

-----------------------------------------------------------------------------
(***************************************************************************)
(* The browser engine as a state machine: push_to_binance step by step,    *)
(* one action per call into the machine, the browser or the page.          *)
(***************************************************************************)
\* The inner try (lines 71-202) is left by an exception.
Throw(e, events) ==
    /\ exc' = e
    /\ log' = log \o events
    /\ pc' = "except"
    /\ UNCHANGED <<caller, content, browser, page, session, chrome, ret,
                   result, rec_result>>

\* The inner try goes on with the next step.
Proceed(next, events) ==
    /\ pc' = next
    /\ log' = log \o events
    /\ UNCHANGED <<caller, content, browser, page, session, chrome, exc, ret,
                   result, rec_result>>

\* Line 50, before the outer try: the content is preprocessed, and an
\* exception there leaves push_to_binance.
EnterPushToBinance(text) ==
    LET r == PreprocessContent(text)
    IN  IF r.kind = "raised"
        THEN /\ result' = r
             /\ pc' = "return"
             /\ content' = <<>>
        ELSE /\ result' = NoResult
             /\ pc' = "guard"
             /\ content' = r.value

\* push_to_binance(content) is invoked.
CallPushToBinance ==
    /\ pc = "idle"
    /\ \E text \in Texts : EnterPushToBinance(text)
    /\ caller' = "push_to_binance"
    /\ UNCHANGED <<browser, page, session, chrome, exc, ret, rec_result, log>>

\* push_recommendation() is invoked, lines 401-442: the file is read, and the
\* recommendation is preprocessed and handed to push_to_binance.
CallPushRecommendation ==
    /\ pc = "idle"
    /\ caller' = "push_recommendation"
    /\ \E file \in Files :
         /\ log' = <<Ev("read_recommendation", FoundInFile(file))>>
         /\ LET r == ReadRecommendation(file)
            IN  IF r.kind # "none"
                THEN /\ rec_result' = PushRecommendationExcept(r)
                     /\ pc' = "done"
                     /\ UNCHANGED <<content, result>>
                ELSE LET p1 == PreprocessContent(RecommendationText(file))
                     IN  IF p1.kind = "raised"
                         THEN /\ rec_result' = PushRecommendationExcept(p1)
                              /\ pc' = "done"
                              /\ UNCHANGED <<content, result>>
                         ELSE /\ EnterPushToBinance(p1.value)
                              /\ UNCHANGED rec_result
    /\ UNCHANGED <<browser, page, session, chrome, exc, ret>>

\* Lines 59-68: the process guard.  Neither helper lets an exception out.
ConflictResolution ==
    /\ pc = "guard"
    /\ \E scan_ok \in BOOLEAN :
         LET is_chrome_running == IsChromeRunning(chrome, scan_ok)
         IN  IF TerminationAttempted(is_chrome_running)
             THEN \E kill_ok \in BOOLEAN, running_after \in BOOLEAN,
                     rescan_ok \in BOOLEAN :
                    /\ ~kill_ok => running_after = chrome
                    /\ chrome' = running_after
                    /\ log' = log \o
                         << Ev("is_chrome_running",
                               IF is_chrome_running THEN "True" ELSE "False"),
                            Ev("close_all_chrome_instances",
                               IF CloseAllChromeInstances(kill_ok, running_after,
                                                          rescan_ok)
                               THEN "True" ELSE "False") >>
             ELSE /\ chrome' = chrome
                  /\ log' = Append(log, Ev("is_chrome_running", "False"))
    /\ pc' = "start"
    /\ UNCHANGED <<caller, content, browser, page, session, exc, ret, result,
                   rec_result>>

\* Line 70: sync_playwright() is entered.  When that fails the outer except
\* clause (lines 231-236) ends the invocation.
StartPlaywright ==
    /\ pc = "start"
    /\ \E ok \in BOOLEAN :
         IF ok
         THEN /\ pc' = "launch"
              /\ log' = Append(log, Ev("start_playwright", "ok"))
              /\ UNCHANGED result
         ELSE /\ pc' = "return"
              /\ log' = Append(log, Ev("start_playwright", "error"))
              /\ result' = OuterExcept(PlaywrightError)
    /\ UNCHANGED <<caller, content, browser, page, session, chrome, exc, ret,
                   rec_result>>

\* Lines 74-103: the profile path is chosen and the persistent context is
\* launched.
Launch ==
    /\ pc = "launch"
    /\ \E profile_name \in ProfileNames, existing \in SUBSET ProfileDirs,
          o \in StepOutcomes :
         IF o = "ok"
         THEN /\ browser' = TRUE
              /\ session' = "open"
              /\ pc' = "new_page"
              /\ log' = Append(log, Launched(profile_name, existing))
              /\ UNCHANGED <<caller, content, page, chrome, exc, ret, result,
                             rec_result>>
         ELSE Throw(ExcOf(o), <<Ev("launch", o)>>)

\* Line 106: browser.new_page()
NewPage ==
    /\ pc = "new_page"
    /\ \E o \in StepOutcomes :
         IF o = "ok"
         THEN /\ page' = TRUE
              /\ pc' = "goto"
              /\ log' = Append(log, Ev("new_page", "ok"))
              /\ UNCHANGED <<caller, content, browser, session, chrome, exc,
                             ret, result, rec_result>>
         ELSE Throw(ExcOf(o), <<Ev("new_page", o)>>)

\* Lines 111-115: page.goto, then the page_loaded screenshot
Goto ==
    /\ pc = "goto"
    /\ \E o \in StepOutcomes :
         IF o = "ok"
         THEN Proceed("load_state", <<Ev("goto", "ok"), DebugScreenshot("page_loaded")>>)
         ELSE Throw(ExcOf(o), <<Ev("goto", o)>>)

\* Lines 119-121: page.wait_for_load_state and the extra delay
WaitLoadState ==
    /\ pc = "load_state"
    /\ \E o \in StepOutcomes :
         IF o = "ok"
         THEN Proceed("check_login", <<Ev("wait_for_load_state", "ok")>>)
         ELSE Throw(ExcOf(o), <<Ev("wait_for_load_state", o)>>)

\* Line 126: _check_login_status(page) on the page as it is, and the branch
\* on its verdict.  A page query that fails (by a timeout or otherwise) is
\* caught inside the check.
CheckLogin ==
    /\ pc = "check_login"
    /\ \E p \in BrowserPages, r \in PageReads, kind \in {"timeout", "error"} :
         LET logged_in == CheckLoginStatus(p, r)
             answered == Ev("check_login_status",
                            IF logged_in THEN "LoggedIn" ELSE "LoggedOut")
         IN  IF TryCheckLogin(p, r) = "except"
             THEN Proceed(LoginGate(logged_in), <<Ev("page_query", kind), answered>>)
             ELSE Proceed(LoginGate(logged_in), <<answered>>)

\* A LoggedOut branch that returns the error result without a screenshot.
NotLoggedInWithoutCapture ==
    /\ pc = "not_logged_in"
    /\ ret' = NotLoggedInResult
    /\ pc' = "finally"
    /\ UNCHANGED <<caller, content, browser, page, session, chrome, exc,
                   result, rec_result, log>>

\* Lines 127-132: the not_logged_in screenshot and the error result
NotLoggedIn ==
    /\ pc = "not_logged_in"
    /\ ret' = NotLoggedInResult
    /\ pc' = "finally"
    /\ log' = Append(log, DebugScreenshot("not_logged_in"))
    /\ UNCHANGED <<caller, content, browser, page, session, chrome, exc,
                   result, rec_result>>

\* Lines 135-147: the logged_in screenshot and the wait for the editor
EditorWait ==
    /\ pc = "editor_wait"
    /\ \E o \in StepOutcomes :
         IF o = "ok"
         THEN Proceed("clear", << DebugScreenshot("logged_in"),
                                  Ev("editor.wait_for", "ok"),
                                  DebugScreenshot("editor_found") >>)
         ELSE IF o = "timeout"
         THEN Throw(ExcOf(o), << DebugScreenshot("logged_in"),
                                 Ev("editor.wait_for", o),
                                 DebugScreenshot("editor_timeout") >>)
         ELSE Throw(ExcOf(o), << DebugScreenshot("logged_in"),
                                 Ev("editor.wait_for", o) >>)

\* Line 151: the editor is emptied
ClearEditor ==
    /\ pc = "clear"
    /\ \E o \in StepOutcomes :
         IF o = "ok"
         THEN Proceed("set_content", <<Ev("editor.clear", "ok")>>)
         ELSE Throw(ExcOf(o), <<Ev("editor.clear", o)>>)

\* Line 166: the content is set as the editor's innerHTML
SetContent ==
    /\ pc = "set_content"
    /\ \E o \in StepOutcomes :
         IF o = "ok"
         THEN Proceed("click_editor", <<Ev("editor.set_content", "ok")>>)
         ELSE Throw(ExcOf(o), <<Ev("editor.set_content", o)>>)

\* Line 168: editor.click()
ClickEditor ==
    /\ pc = "click_editor"
    /\ \E o \in StepOutcomes :
         IF o = "ok"
         THEN Proceed("text_check", <<Ev("editor.click", "ok")>>)
         ELSE Throw(ExcOf(o), <<Ev("editor.click", o)>>)

\* Lines 171-176: does the editor hold text?  An empty content leaves none.
TextCheck ==
    /\ pc = "text_check"
    /\ \E o \in StepOutcomes, has_text \in BOOLEAN :
         /\ content = <<>> => ~has_text
         /\ IF o # "ok" THEN Throw(ExcOf(o), <<Ev("editor.text_check", o)>>)
            ELSE LET checked == Ev("editor.text_check",
                                   IF has_text THEN "True" ELSE "False")
                 IN  IF TypingFallback(has_text)
                     THEN Proceed("type", <<checked>>)
                     ELSE Proceed("button_wait",
                                  <<checked, DebugScreenshot("content_entered")>>)

\* Line 173: editor.type(content), the fallback
TypeContent ==
    /\ pc = "type"
    /\ \E o \in StepOutcomes :
         IF o = "ok"
         THEN Proceed("button_wait", << Ev("editor.type", "ok"),
                                        DebugScreenshot("content_entered") >>)
         ELSE Throw(ExcOf(o), <<Ev("editor.type", o)>>)

\* Lines 180-184 and 187-190: the wait for the submit control
ButtonWait ==
    /\ pc = "button_wait"
    /\ \E o \in StepOutcomes :
         IF o = "ok"
         THEN Proceed("post_click", << Ev("post_button.wait_for", "ok"),
                                       DebugScreenshot("before_post_click") >>)
         ELSE IF o = "timeout"
         THEN Throw(ExcOf(o), << Ev("post_button.wait_for", o),
                                 DebugScreenshot("post_button_timeout") >>)
         ELSE Throw(ExcOf(o), <<Ev("post_button.wait_for", o)>>)

\* Lines 185-190: post_button.click()
PostClick ==
    /\ pc = "post_click"
    /\ \E o \in StepOutcomes :
         IF o = "ok"
         THEN Proceed("settle", <<Ev("post_button.click", "ok")>>)
         ELSE IF o = "timeout"
         THEN Throw(ExcOf(o), << Ev("post_button.click", o),
                                 DebugScreenshot("post_button_timeout") >>)
         ELSE Throw(ExcOf(o), <<Ev("post_button.click", o)>>)

\* Lines 194-202: the settle delay, the last screenshot, the success result
Settle ==
    /\ pc = "settle"
    /\ \E o \in StepOutcomes :
         IF o = "ok"
         THEN /\ ret' = SuccessResult
              /\ pc' = "finally"
              /\ log' = log \o << Ev("wait_for_timeout", "ok"),
                                  DebugScreenshot("post_completed") >>
              /\ UNCHANGED <<caller, content, browser, page, session, chrome,
                             exc, result, rec_result>>
         ELSE Throw(ExcOf(o), <<Ev("wait_for_timeout", o)>>)

\* Lines 204-220: the except clauses of the inner try
Except ==
    /\ pc = "except"
    /\ \E captured \in BOOLEAN :
         LET shot == SaveErrorScreenshot(page, captured)
         IN  /\ ret' = InnerExcept(exc, shot.path)
             /\ log' = Append(log, shot.event)
    /\ exc' = NoExc
    /\ pc' = "finally"
    /\ UNCHANGED <<caller, content, browser, page, session, chrome, result,
                   rec_result>>

\* Lines 222-229: the finally clause; a close that raises is logged and
\* swallowed, and leaves the session to the exit of the with block.
Finally ==
    /\ pc = "finally"
    /\ IF ShouldClose(browser, ret)
       THEN \E o \in {"ok", "error"} :
              /\ log' = Append(log, Ev("browser.close", o))
              /\ session' = IF o = "ok" THEN "closed" ELSE session
       ELSE UNCHANGED <<log, session>>
    /\ pc' = "stop"
    /\ UNCHANGED <<caller, content, browser, page, chrome, exc, ret, result,
                   rec_result>>

\* Line 70, leaving the with block: the Playwright driver is stopped, which
\* ends whatever session it still holds; then the return takes effect.
StopPlaywright ==
    /\ pc = "stop"
    /\ log' = Append(log, Ev("stop_playwright", "ok"))
    /\ session' = IF session = "open" THEN "closed" ELSE session
    /\ result' = Returned(ret)
    /\ pc' = "return"
    /\ UNCHANGED <<caller, content, browser, page, chrome, exc, ret, rec_result>>

\* push_to_binance has ended; push_recommendation (lines 442-449) returns
\* what it returned, or turns its exception into an error result.
ReturnToCaller ==
    /\ pc = "return"
    /\ rec_result' = IF caller = "push_recommendation"
                     THEN PushRecommendationExcept(result)
                     ELSE rec_result
    /\ pc' = "done"
    /\ UNCHANGED <<caller, content, browser, page, session, chrome, exc, ret,
                   result, log>>

\* The caller has its answer; the publisher is ready for the next call.
Finish ==
    /\ pc = "done"
    /\ pc' = "idle"
    /\ caller' = "none"
    /\ content' = <<>>
    /\ browser' = FALSE
    /\ page' = FALSE
    /\ session' = "none"
    /\ exc' = NoExc
    /\ ret' = None
    /\ result' = NoResult
    /\ rec_result' = NoResult
    /\ log' = <<>>
    /\ UNCHANGED chrome

Init ==
    /\ ApiIdle
    /\ LoginIdle
    /\ BrowserIdle
    /\ chrome \in BOOLEAN

NextBrowser ==
    \/ CallPushToBinance
    \/ CallPushRecommendation
    \/ ConflictResolution
    \/ StartPlaywright
    \/ Launch
    \/ NewPage
    \/ Goto
    \/ WaitLoadState
    \/ CheckLogin
    \/ NotLoggedIn
    \/ EditorWait
    \/ ClearEditor
    \/ SetContent
    \/ ClickEditor
    \/ TextCheck
    \/ TypeContent
    \/ ButtonWait
    \/ PostClick
    \/ Settle
    \/ Except
    \/ Finally
    \/ StopPlaywright
    \/ ReturnToCaller
    \/ Finish

Next == NextBrowser /\ UNCHANGED <<apiVars, normVars, loginVars>>

Spec == Init /\ [][Next]_vars

\* The steps push_to_binance takes by itself once it has been invoked: the
\* code is sequential, and each call it makes into the machine, the browser
\* or the page completes, times out or raises (launch, navigation, waits and
\* screenshots all carry a timeout).  Invocations are up to the caller.
EngineStep ==
    /\ pc # "idle"
    /\ Next

\* The browser engine with its steps taken sooner or later.
SpecLive == Init /\ [][Next]_vars /\ WF_vars(EngineStep)

-----------------------------------------------------------------------------
(***************************************************************************)
(* Properties of the browser engine.                                       *)
(***************************************************************************)
LogHas(e) == \E i \in DOMAIN log : log[i] = e
LogHasOp(op) == \E i \in DOMAIN log : log[i].op = op

LoggedInVerdict == Ev("check_login_status", "LoggedIn")
LoggedOutVerdict == Ev("check_login_status", "LoggedOut")

\* Writing the content into the editor, and clicking the submit control.
InjectionOps == {"editor.set_content", "editor.type"}
SubmitOps == {"post_button.click"}

\* push_to_binance has ended and its outcome is in result.
PushToBinanceEnded == pc \in {"return", "done"} /\ result # NoResult

\* The outcome r is a returned result with status success or error.
StructuredResult(r) ==
    /\ r.kind = "returned"
    /\ r.value # None
    /\ r.value.status \in {"success", "error"}

\* C1: within one invocation of push_to_binance, the content is written into
\* the editor and the submit control is clicked only after the login check
\* of that invocation has answered LoggedIn; and once the check has answered
\* LoggedOut, nothing is written, nothing is clicked, and push_to_binance
\* ends with a result of status error.
C1_PostOnlyWhenLoggedIn ==
    /\ \A i \in DOMAIN log :
         log[i].op \in InjectionOps \cup SubmitOps
            => \E j \in 1..(i - 1) : log[j] = LoggedInVerdict
    /\ LogHas(LoggedOutVerdict) =>
         /\ \A i \in DOMAIN log : log[i].op \notin InjectionOps \cup SubmitOps
         /\ PushToBinanceEnded =>
              StructuredResult(result) /\ result.value.status = "error"

\* An invocation whose login check answered LoggedOut has ended.
C1_Witness ==
    /\ pc = "done"
    /\ LogHas(LoggedOutVerdict)
    /\ result = Returned(NotLoggedInResult)

\* C3: when push_to_binance has ended, the browser session it launched (if
\* any) is closed, and the cleanup step has called close on it, whichever
\* step ended the attempt.
C3_SessionClosed ==
    PushToBinanceEnded /\ session # "none"
        => session = "closed" /\ LogHasOp("browser.close")

\* An invocation that launched a session and timed out waiting for the
\* editor has ended.
C3_Witness ==
    /\ pc = "done"
    /\ session = "closed"
    /\ LogHas(Ev("editor.wait_for", "timeout"))
    /\ LogHasOp("browser.close")

\* C4: whatever the input and whichever step fails, push_to_binance and
\* push_recommendation end by returning a result whose status is success or
\* error; neither ends with an exception.
C4_NeverRaises ==
    pc = "done" =>
        /\ result # NoResult => StructuredResult(result)
        /\ caller = "push_recommendation" => StructuredResult(rec_result)

\* The steps of the pipeline at which a bounded wait can expire.
TimeoutOps ==
    {"goto", "page_query", "editor.wait_for", "editor.clear",
     "editor.set_content", "editor.click", "editor.text_check", "editor.type",
     "post_button.wait_for", "post_button.click"}

\* The steps of the pipeline from navigation to the settle delay.
PipelineOps ==
    {"goto", "wait_for_load_state", "page_query", "editor.wait_for",
     "editor.clear", "editor.set_content", "editor.click", "editor.text_check",
     "editor.type", "post_button.wait_for", "post_button.click",
     "wait_for_timeout"}

\* C5: a timeout at navigation, login verification, content injection or
\* submission aborts the attempt: no later pipeline step runs, the full-page
\* screenshot is taken (the capture itself may fail, which leaves the path
\* empty), and push_to_binance ends with {status: error, message, screenshot}.
C5_TimeoutAbortsWithScreenshot ==
    \A i \in DOMAIN log :
        log[i].op \in TimeoutOps /\ log[i].out = "timeout" =>
            /\ \A j \in (i + 1)..Len(log) : log[j].op \notin PipelineOps
            /\ PushToBinanceEnded =>
                 /\ StructuredResult(result)
                 /\ result.value.status = "error"
                 /\ "screenshot" \in DOMAIN result.value
                 /\ LogHasOp("error_screenshot")

-----------------------------------------------------------------------------
(***************************************************************************)
(* Properties of the publish pipeline.                                     *)
(***************************************************************************)
UploadOps == {"upload_draft", "upload_image", "upload_content_image"}

\* The field of the response an upload hands back.
ResultField(op) == IF op = "upload_content_image" THEN "url" ELSE "media_id"

\* The upload's endpoint has answered with a response that holds the result.
UploadAnswered ==
    /\ last.op \in UploadOps
    /\ ~Raised(last.reply.endpoint)
    /\ ResultField(last.op) \in DOMAIN last.reply.endpoint.json

\* C11: an upload whose endpoint answered fails exactly when the response
\* carries a non-zero error code; a response whose error code is 0 is
\* treated as success.
C11_ErrorCodeDecides ==
    UploadAnswered =>
        LET j == last.reply.endpoint.json
        IN  (last.outcome = "raised") <=> ("errcode" \in DOMAIN j /\ j.errcode # 0)

\* A request of the finished call went to the endpoint.
SentTo(endpoint) == \E i \in 1..Len(last.sent) : last.sent[i].endpoint = endpoint

\* The direct-publish flag of the finished publish call is enabled.
FlagEnabled == last.arg.flag \in {"true", "True"}

\* C12: publish submits the draft for publication only if the flag is
\* enabled and only after its upload_draft call has given a draft; with a
\* draft and the flag disabled it returns a draft result whose URL is built
\* from the draft id, without any submission; with a draft and the flag
\* enabled it ends in direct_publish: it raises, or it returns a publishing
\* result that carries the publish id of the response and the draft id.
C12_PublishFollowsFlag ==
    last.op = "publish" =>
        /\ SentTo("freepublish/submit") =>
              /\ FlagEnabled
              /\ last.draft # ""
              /\ Len(last.sent) = 2
              /\ last.sent[1].endpoint = "draft/add"
              /\ last.sent[2].endpoint = "freepublish/submit"
        /\ last.draft = "" => last.outcome = "raised"
        /\ (last.draft # "" /\ ~FlagEnabled) =>
              /\ last.outcome = "returned"
              /\ ~SentTo("freepublish/submit")
              /\ last.value.status = "draft"
              /\ last.value.platform = "weixin"
              /\ last.value.url = "https://mp.weixin.qq.com/s/" \o last.draft
        /\ (last.draft # "" /\ FlagEnabled /\ last.outcome = "returned") =>
              /\ SentTo("freepublish/submit")
              /\ ~Raised(last.reply.submit)
              /\ last.value.status = "publishing"
              /\ last.value.platform = "weixin"
              /\ last.value.publishId = Get(last.reply.submit.json, "publish_id", "")
              /\ last.value.draftId = last.draft
        /\ (last.draft # "" /\ FlagEnabled /\ last.outcome = "raised") =>
              \/ SentTo("freepublish/submit")
              \/ last.exchanges > 0

\* A publish call with the flag written "True" has submitted its draft and
\* returned the publishing result.
C12_Witness ==
    /\ last.op = "publish"
    /\ last.arg.flag = "True"
    /\ last.outcome = "returned"
    /\ last.value.status = "publishing"
    /\ last.value.publishId = "p1"
    /\ last.value.draftId = last.draft

RecommendationDrafted ==
    /\ last.op = "push_recommendation"
    /\ "image_url" \in DOMAIN last.arg.file
    /\ ~FlagEnabled
    /\ "status" \in DOMAIN last.value
    /\ last.value.status = "draft"

\* C14: for a record with content and an image_url, push_recommendation
\* uploads the image named by the record's image_url, then a draft whose
\* thumbnail is the media id that upload returned, and (direct publish
\* disabled) returns the draft result with the URL of the draft.
C14_UploadsRecordImage ==
    RecommendationDrafted =>
        /\ Len(last.sent) = 3
        /\ last.sent[1] = Request("image", "", last.arg.file.image_url)
        /\ last.sent[2].endpoint = "material/add_material"
        /\ last.sent[3].endpoint = "draft/add"
        /\ last.sent[3].body.thumb_media_id = last.reply.image.json.media_id
        /\ last.value.platform = "weixin"
        /\ last.value.url = "https://mp.weixin.qq.com/s/" \o last.draft

\* The token step of the finished validate_ip_whitelist call succeeded: the
\* cache served it, or the exchange gave a token.
ProbeSucceeded ==
    \/ last.exchanges = 0
    \/ /\ ~Raised(last.reply.token)
       /\ {"access_token", "expires_in"} \subseteq DOMAIN last.reply.token.json

\* The token endpoint refused the exchange with the invalid-IP error.
ProbeInvalidIp ==
    /\ last.exchanges = 1
    /\ ~Raised(last.reply.token)
    /\ "errcode" \in DOMAIN last.reply.token.json
    /\ last.reply.token.json.errcode = 40164

\* C15: validate_ip_whitelist returns true when ensure_access_token
\* succeeds, returns the offending IP when ensure_access_token fails with
\* the invalid-IP error, and raises on every other failure.
C15_ValidateIpWhitelist ==
    last.op = "validate_ip_whitelist" =>
        /\ ProbeSucceeded => (last.outcome = "returned" /\ last.value = "True")
        /\ (~ProbeSucceeded /\ ProbeInvalidIp) =>
              (last.outcome = "returned" /\ last.value = "1.2.3.4")
        /\ (~ProbeSucceeded /\ ~ProbeInvalidIp) => last.outcome = "raised"

\* The upload_draft step of the finished publish call went through: its
\* request was sent and answered with a draft id and no error code.
DraftStepOk ==
    /\ SentTo("draft/add")
    /\ ~Raised(last.reply.draft)
    /\ "errcode" \notin DOMAIN last.reply.draft.json
    /\ "media_id" \in DOMAIN last.reply.draft.json

\* Its direct_publish step went through: the request was sent and the
\* answer carries no non-zero error code.
SubmitStepOk ==
    /\ SentTo("freepublish/submit")
    /\ ~Raised(last.reply.submit)
    /\ Get(last.reply.submit.json, "errcode", 0) = 0

\* C16: publish returns a result only when its upload_draft step and, with
\* the flag enabled, its direct_publish step went through, the token steps
\* that precede their requests included; in every other case the failure
\* is raised to the caller and no result is returned.
C16_PublishPropagatesFailure ==
    last.op = "publish" =>
        /\ last.outcome \in {"returned", "raised"}
        /\ last.outcome = "returned" <=> (DraftStepOk /\ (FlagEnabled => SubmitStepOk))
        /\ last.outcome = "raised" => (last.value = None /\ last.error # None)

\* A publish call whose draft was uploaded and whose submission the
\* platform refused has raised.
C16_Witness ==
    /\ last.op = "publish"
    /\ last.draft # ""
    /\ SentTo("freepublish/submit")
    /\ ~Raised(last.reply.submit)
    /\ Get(last.reply.submit.json, "errcode", 0) = 53503
    /\ last.outcome = "raised"

-----------------------------------------------------------------------------
(***************************************************************************)
(* Both engines in one program.  The engines share no field, so a run of   *)
(* the one is not affected by what the other has done.  A run invokes the  *)
(* browser engine any number of times and then calls one operation of the  *)
(* API engine as constructed; what a call finds on an engine that earlier  *)
(* calls have used is the subject of SpecApi and SpecPublish.              *)
(***************************************************************************)
\* No API operation has been called on the engine yet.
ApiUnused == last = NoCall /\ now = 0 /\ access_token = NoToken

NextEngines ==
    \/ ApiUnused /\ NextBrowser /\ UNCHANGED <<apiVars, normVars, loginVars>>
    \/ pc = "idle" /\ CallEnsureAccessToken
    \/ pc = "idle" /\ CallDirectPublish
    \/ pc = "idle" /\ CallCheckPublishStatus
    \/ pc = "idle" /\ CallUploadDraft
    \/ pc = "idle" /\ CallUploadImage
    \/ pc = "idle" /\ CallUploadContentImage

SpecEngines == Init /\ [][NextEngines]_vars

\* How often the invocation in progress has called the browser operation.
TimesLogged(op) == Cardinality({i \in DOMAIN log : log[i].op = op})

\* The endpoint of an API operation.
EndpointOf(op) ==
    CASE op = "upload_draft" -> "draft/add"
      [] op = "upload_image" -> "material/add_material"
      [] op = "upload_content_image" -> "media/uploadimg"
      [] op = "direct_publish" -> "freepublish/submit"
      [] op = "check_publish_status" -> "freepublish/get"
      [] OTHER -> "none"

\* How many requests of the finished call went to the endpoint.
TimesSent(endpoint) ==
    Cardinality({i \in 1..Len(last.sent) : last.sent[i].endpoint = endpoint})

\* C17: within one push_to_binance invocation the session launch, the page
\* navigation and the submit click each happen at most once, and one call
\* of an API operation sends at most one request to its endpoint, fetches
\* an image at most once and makes at most one credential exchange,
\* whatever fails.
C17_NoRetries ==
    /\ TimesLogged("launch") <= 1
    /\ TimesLogged("goto") <= 1
    /\ TimesLogged("post_button.click") <= 1
    /\ TimesSent(EndpointOf(last.op)) <= 1
    /\ TimesSent("image") <= 1
    /\ last.exchanges <= 1

\* An upload_draft call made its exchange and sent its request, the request
\* failed in transport, and the call ended there.
C17_Witness ==
    /\ last.op = "upload_draft"
    /\ last.exchanges = 1
    /\ Len(last.sent) = 1
    /\ Raised(last.reply.endpoint)
    /\ last.outcome = "raised"

-----------------------------------------------------------------------------
(***************************************************************************)
(* Two callers inside ensure_access_token on one engine, each in a thread  *)
(* of its own, taking the statements of lines 57-78 one at a time.  The    *)
(* reads of line 57-58 decide on the token the cache holds when the        *)
(* expiry is read.                                                         *)
(***************************************************************************)
Callers == {1, 2}

\* The cache the callers find: nothing, or a token that is no longer fresh.
StaleToken == WeixinToken("tok0", 60, 0)
ConcCaches == {NoToken, StaleToken}

StoredTokenInPlace(old, new) ==
    IF old = NoToken THEN new
    ELSE [old EXCEPT !.access_token = new.access_token]

\* Lines 70-73: the cache is given a new WeixinToken object in one
\* assignment; the object it held is not touched.
StoredToken(old, new) == new

InitConc ==
    /\ LoginIdle
    /\ BrowserIdle
    /\ chrome = FALSE
    /\ now = 0
    /\ access_token \in ConcCaches
    /\ app_id = None
    /\ app_secret = None
    /\ last = NoCall
    /\ finalSeen = {}
    /\ drafts = {}
    /\ norm = NoNorm
    /\ conc = [on |-> TRUE,
               pc |-> [c \in Callers |-> "check"],
               reply |-> [c \in Callers |-> HttpFailure],
               exchanges |-> [c \in Callers |-> 0],
               stored_at |-> [c \in Callers |-> -1],
               value |-> [c \in Callers |-> ""],
               cache0 |-> access_token]

ConcFrame == UNCHANGED <<last, finalSeen, drafts, normVars, loginVars, browserVars>>

\* Caller c moves to the statement at.
Moved(c, at) == [conc EXCEPT !.pc[c] = at]

\* Lines 57-58: the test of the cache.
ConcCheck(c) ==
    /\ conc.pc[c] = "check"
    /\ conc' = Moved(c, IF TokenIsFresh(access_token, now) THEN "hit" ELSE "refresh")
    /\ UNCHANGED <<now, access_token, app_id, app_secret>>
    /\ ConcFrame

\* Line 59: the value of the token the cache holds now.
ConcHit(c) ==
    /\ conc.pc[c] = "hit"
    /\ conc' = [Moved(c, "returned") EXCEPT !.value[c] = access_token.access_token]
    /\ UNCHANGED <<now, access_token, app_id, app_secret>>
    /\ ConcFrame

\* Line 63: refresh() reads the two configuration keys.
ConcRefresh(c) ==
    /\ conc.pc[c] = "refresh"
    /\ app_id' = ConfigAppId
    /\ app_secret' = ConfigAppSecret
    /\ conc' = Moved(c, "exchange")
    /\ UNCHANGED <<now, access_token>>
    /\ ConcFrame

\* Lines 65-68: the exchange, and the test of its answer.
ConcExchange(c) ==
    /\ conc.pc[c] = "exchange"
    /\ \E reply \in PipeTokenReplies \cup {HttpJson([access_token |-> "tokA"])} :
         LET given == ~Raised(reply) /\ "access_token" \in DOMAIN reply.json
         IN  conc' = [Moved(c, IF given THEN "store" ELSE "raised")
                         EXCEPT !.reply[c] = reply,
                                !.exchanges[c] = @ + 1]
    /\ UNCHANGED <<now, access_token, app_id, app_secret>>
    /\ ConcFrame

\* Lines 70-73: the token object is built, at the time of the clock, and
\* stored; an answer without expires_in raises KeyError instead.
ConcStore(c) ==
    /\ conc.pc[c] = "store"
    /\ LET j == conc.reply[c].json
       IN  IF "expires_in" \in DOMAIN j
           THEN /\ access_token' =
                      StoredToken(access_token,
                                  WeixinToken(j.access_token, j.expires_in, now))
                /\ conc' = [Moved(c, "return") EXCEPT !.stored_at[c] = now]
           ELSE /\ conc' = Moved(c, "raised")
                /\ UNCHANGED access_token
    /\ UNCHANGED <<now, app_id, app_secret>>
    /\ ConcFrame

\* Line 74: the value of the token the cache holds now.
ConcReturn(c) ==
    /\ conc.pc[c] = "return"
    /\ conc' = [Moved(c, "returned") EXCEPT !.value[c] = access_token.access_token]
    /\ UNCHANGED <<now, access_token, app_id, app_secret>>
    /\ ConcFrame

\* The clock moves while a caller is inside the operation.
ConcTick ==
    /\ \E c \in Callers : conc.pc[c] \notin {"returned", "raised"}
    /\ \E d \in ClockSteps :
         /\ now + d <= MaxNow
         /\ now' = now + d
    /\ UNCHANGED <<conc, access_token, app_id, app_secret>>
    /\ ConcFrame

NextConc ==
    \/ ConcTick
    \/ \E c \in Callers : ConcCheck(c)
    \/ \E c \in Callers : ConcHit(c)
    \/ \E c \in Callers : ConcRefresh(c)
    \/ \E c \in Callers : ConcExchange(c)
    \/ \E c \in Callers : ConcStore(c)
    \/ \E c \in Callers : ConcReturn(c)

SpecConc == InitConc /\ [][NextConc]_vars


\* Both callers have left ensure_access_token.
BothFinished == \A c \in Callers : conc.pc[c] \in {"returned", "raised"}

\* Both callers found the cache missing or stale and went on to refresh.
BothMissed == \A c \in Callers : conc.exchanges[c] >= 1

\* The exchange of caller c answered with a token and its lifetime.
GaveToken(c) ==
    /\ conc.exchanges[c] = 1
    /\ ~Raised(conc.reply[c])
    /\ {"access_token", "expires_in"} \subseteq DOMAIN conc.reply[c].json

\* The complete token of the exchange of caller c: its value, and the expiry
\* counted from the moment the token was built.
TokenOfExchange(c) ==
    [access_token |-> conc.reply[c].json.access_token,
     expires_in |-> conc.reply[c].json.expires_in,
     expires_at |-> conc.stored_at[c] + conc.reply[c].json.expires_in]

\* The cache holds the complete token of an exchange of one of the callers.
CacheIsOfAnExchange ==
    \E c \in Callers : GaveToken(c) /\ access_token = TokenOfExchange(c)

\* The caller has returned the token value of an exchange.
ReturnedExchangeValue(c) ==
    /\ conc.pc[c] = "returned"
    /\ \E k \in Callers : GaveToken(k) /\ conc.value[c] = conc.reply[k].json.access_token

\* C18 as stated: when both callers observe a cache miss, each performs at
\* most one credential exchange, each returns the token value of an
\* exchange, and after both finish the cache holds the complete token of one
\* of those exchanges.
C18_OnlyRedundantRefreshes ==
    (conc.on /\ BothFinished /\ BothMissed) =>
        /\ \A c \in Callers : conc.exchanges[c] <= 1
        /\ \A c \in Callers : ReturnedExchangeValue(c)
        /\ CacheIsOfAnExchange

\* C18, amended: each caller performs at most one credential exchange; a
\* caller whose exchange gave a token, or who found a fresh token in the
\* cache, returns the token value of one of the exchanges; a caller whose
\* exchange failed raises; after both finish the cache holds the complete
\* token of one of the exchanges that gave a token, or what it held before
\* when none did.
C18_RedundantRefreshesOrFailure ==
    conc.on =>
        /\ \A c \in Callers : conc.exchanges[c] <= 1
        /\ \A c \in Callers : conc.pc[c] = "returned" => ReturnedExchangeValue(c)
        /\ \A c \in Callers :
              conc.pc[c] = "raised" <=> (conc.exchanges[c] = 1 /\ ~GaveToken(c)
                                         /\ conc.pc[c] \notin {"store", "exchange"})
        /\ BothFinished =>
              IF \E c \in Callers : GaveToken(c)
              THEN CacheIsOfAnExchange
              ELSE access_token = conc.cache0

\* Both callers missed the cache and made their exchanges, which gave two
\* different tokens; the first caller has returned the token of the second.
C18_Witness ==
    /\ conc.on
    /\ BothFinished
    /\ BothMissed
    /\ GaveToken(1) /\ GaveToken(2)
    /\ conc.reply[1].json.access_token = "tokA"
    /\ conc.reply[2].json.access_token = "tokB"
    /\ conc.value[1] = "tokB"
    /\ conc.value[2] = "tokB"
    /\ access_token = TokenOfExchange(2)

-----------------------------------------------------------------------------
(***************************************************************************)
(* The normalizers on any input: a str or a bytes object.  A value is a    *)
(* record of its type and its elements, code points for a str and byte     *)
(* values for a bytes object.                                              *)
(***************************************************************************)
Str(s) == [kind |-> "str", data |-> s]
Bytes(b) == [kind |-> "bytes", data |-> b]

\* The byte values the inputs are made of: '&', 'l', 't', and the three
\* bytes of U+4E2D in UTF-8, e4 b8 ad.
ByteValues == {38, 108, 116, 228, 184, 173}

\* The character of a hexadecimal digit, '0'-'9' and 'a'-'f'.
HexDigit(n) == IF n < 10 THEN 48 + n ELSE 87 + n

\* bytes.__repr__ of one byte inside the quote character quote.
ReprByte(c, quote) ==
    IF c = quote \/ c = 92 THEN <<92, c>>
    ELSE IF c = Tab THEN <<92, 116>>
    ELSE IF c = LF THEN <<92, 110>>
    ELSE IF c = CR THEN <<92, 114>>
    ELSE IF c < 32 \/ c >= 127 THEN <<92, 120, HexDigit(c \div 16), HexDigit(c % 16)>>
    ELSE <<c>>

RECURSIVE ReprBytes(_, _)
ReprBytes(b, quote) ==
    IF b = <<>> THEN <<>>
    ELSE ReprByte(Head(b), quote) \o ReprBytes(Tail(b), quote)

\* str(b) for a bytes object b: its repr, the letter b and the quoted,
\* escaped bytes; double quotes when b holds ' and no ".
BytesRepr(b) ==
    LET has(c) == \E i \in DOMAIN b : b[i] = c
        quote == IF has(39) /\ ~has(34) THEN 34 ELSE 39
    IN  <<98, quote>> \o ReprBytes(b, quote) \o <<quote>>

\* The outcome of a decode: the text, or UnicodeDecodeError.
Decoded(s) == [ok |-> TRUE, text |-> s]
DecodeError == [ok |-> FALSE, text |-> <<>>]

\* b[i] is a continuation byte of UTF-8 within lo..hi.
Continuation(b, i, lo, hi) == i <= Len(b) /\ b[i] >= lo /\ b[i] <= hi

RECURSIVE Utf8From(_, _)
\* bytes.decode('utf-8') from position i on.
Utf8From(b, i) ==
    IF i > Len(b) THEN Decoded(<<>>)
    ELSE LET c == b[i]
             n == IF c < 128 THEN 1
                  ELSE IF c >= 194 /\ c <= 223 /\ Continuation(b, i + 1, 128, 191) THEN 2
                  ELSE IF /\ c >= 224 /\ c <= 239
                          /\ Continuation(b, i + 1, IF c = 224 THEN 160 ELSE 128,
                                                    IF c = 237 THEN 159 ELSE 191)
                          /\ Continuation(b, i + 2, 128, 191) THEN 3
                  ELSE IF /\ c >= 240 /\ c <= 244
                          /\ Continuation(b, i + 1, IF c = 240 THEN 144 ELSE 128,
                                                    IF c = 244 THEN 143 ELSE 191)
                          /\ Continuation(b, i + 2, 128, 191)
                          /\ Continuation(b, i + 3, 128, 191) THEN 4
                  ELSE 0
             cp == CASE n = 1 -> c
                     [] n = 2 -> (c - 192) * 64 + (b[i + 1] - 128)
                     [] n = 3 -> (c - 224) * 4096 + (b[i + 1] - 128) * 64 + (b[i + 2] - 128)
                     [] n = 4 -> (c - 240) * 262144 + (b[i + 1] - 128) * 4096
                                   + (b[i + 2] - 128) * 64 + (b[i + 3] - 128)
                     [] OTHER -> 0
         IN  IF n = 0 THEN DecodeError
             ELSE LET rest == Utf8From(b, i + n)
                  IN  IF rest.ok THEN Decoded(<<cp>> \o rest.text) ELSE DecodeError

Utf8Decode(b) == Utf8From(b, 1)

\* The two-byte characters of the legacy encodings among ByteValues: lead
\* byte, trail byte, code point.
gbk ==
    { <<228, 108, 37590>>, <<228, 116, 37598>>, <<228, 228, 28375>>,
      <<228, 184, 28051>>, <<228, 173, 27957>>, <<184, 108, 31448>>,
      <<184, 116, 31463>>, <<184, 228, 38224>>, <<184, 184, 29238>>,
      <<184, 173, 33105>>, <<173, 108, 29876>>, <<173, 116, 29885>> }
gb2312 ==
    { <<228, 228, 28375>>, <<228, 184, 28051>>, <<228, 173, 27957>>,
      <<184, 228, 38224>>, <<184, 184, 29238>>, <<184, 173, 33105>> }
gb18030 ==
    gbk \cup { <<173, 228, 57693>>, <<173, 184, 57649>>, <<173, 173, 57638>> }

RECURSIVE LegacyFrom(_, _, _)
\* bytes.decode(encoding) from position i on, for a legacy encoding given
\* by its two-byte characters.
LegacyFrom(b, i, table) ==
    IF i > Len(b) THEN Decoded(<<>>)
    ELSE IF b[i] < 128
    THEN LET rest == LegacyFrom(b, i + 1, table)
         IN  IF rest.ok THEN Decoded(<<b[i]>> \o rest.text) ELSE DecodeError
    ELSE IF i + 1 <= Len(b) /\ \E e \in table : e[1] = b[i] /\ e[2] = b[i + 1]
    THEN LET e == CHOOSE x \in table : x[1] = b[i] /\ x[2] = b[i + 1]
             rest == LegacyFrom(b, i + 2, table)
         IN  IF rest.ok THEN Decoded(<<e[3]>> \o rest.text) ELSE DecodeError
    ELSE DecodeError

\* BinancePublisher lines 376-386, WXPublisher lines 92-109: what a bytes
\* object becomes: decoded as UTF-8, else by the first of gbk, gb2312 and
\* gb18030 that decodes it, else left as it is.
DecodeChain(b) ==
    LET u == Utf8Decode(b)
        k == LegacyFrom(b, 1, gbk)
        g == LegacyFrom(b, 1, gb2312)
        x == LegacyFrom(b, 1, gb18030)
    IN  IF u.ok THEN Str(u.text)
        ELSE IF k.ok THEN Str(k.text)
        ELSE IF g.ok THEN Str(g.text)
        ELSE IF x.ok THEN Str(x.text)
        ELSE Bytes(b)

\* Lines 372-373 and 86-87: if not isinstance(content, str): content = str(content)
EnsureStr(v) == IF v.kind # "str" THEN Str(BytesRepr(v.data)) ELSE v

\* Lines 376 and 92: if isinstance(content, bytes): the decode chain
DecodeIfBytes(v) == IF v.kind = "bytes" THEN DecodeChain(v.data) ELSE v

\* html.unescape of a bytes object
UnescapeOfBytes == Raises(Exc("TypeError", "a bytes-like object is required, not 'str'"))

\* _preprocess_content(content), lines 366-399, for a str or a bytes object.
PreprocessContentOf(v) ==
    IF v.data = <<>> THEN Returned(<<>>)
    ELSE LET d == DecodeIfBytes(EnsureStr(v))
         IN  IF d.kind = "bytes" THEN UnescapeOfBytes ELSE PreprocessContent(d.data)

\* _preprocess_article(article), lines 80-123, for a str or a bytes object.
PreprocessArticleOf(v) ==
    IF v.data = <<>> THEN Returned(<<>>)
    ELSE LET d == DecodeIfBytes(EnsureStr(v))
         IN  IF d.kind = "bytes" THEN UnescapeOfBytes ELSE PreprocessArticle(d.data)

-----------------------------------------------------------------------------
(***************************************************************************)
(* The normalizers as a state machine: an input is drawn, and the passes   *)
(* of one pipeline are applied to it one after the other.                  *)
(***************************************************************************)
MaxLen == 3            \* length of the drawn texts and byte strings

\* Sequences over a set, up to a length.
SeqsUpTo(S, n) == UNION {[1..k -> S] : k \in 0..n}

\* The characters the drawn texts are made of.
TextChars == {Amp, Semi, LetterA, LetterM, LetterP, LetterL, LetterT, Bell, Tab}

\* '&amp;lt;' and '&#111;', beside the texts of the browser engine.
AmpLt == <<Amp, LetterA, LetterM, LetterP, Semi, LetterL, LetterT, Semi>>
NormInputs ==
    {Str(s) : s \in SeqsUpTo(TextChars, MaxLen) \cup Texts \cup {AmpLt, <<Amp, Hash, DigitRun(3), Semi>>}}
    \cup {Bytes(b) : b \in SeqsUpTo(ByteValues, MaxLen)}

\* How often a pipeline normalizes the content it publishes: push_recommendation
\* and push_to_binance (BinancePublisher lines 438 and 50); push_recommendation,
\* publish and upload_draft (WXPublisher lines 731, 501 and 379).
ContentPasses == 2
ArticlePasses == 3

InitNorm ==
    /\ LoginIdle
    /\ BrowserIdle
    /\ chrome = FALSE
    /\ now = 0
    /\ access_token = NoToken
    /\ app_id = None
    /\ app_secret = None
    /\ last = NoCall
    /\ finalSeen = {}
    /\ drafts = {}
    /\ conc = NoCallers
    /\ \E v \in NormInputs, engine \in {"binance", "weixin"} :
         norm = [stage |-> "run", engine |-> engine, input |-> v, passes |-> <<>>]

\* What the next pass is applied to: the input, or the text the pass before
\* it returned.
PassInput ==
    IF norm.passes = <<>> THEN norm.input
    ELSE Str(norm.passes[Len(norm.passes)].value)

\* The pipeline goes on: no pass has raised.
PassesGoOn ==
    IF norm.passes = <<>> THEN TRUE
    ELSE norm.passes[Len(norm.passes)].kind = "returned"

\* The browser engine normalizes the content once more.
NormalizeContent ==
    /\ norm.stage = "run"
    /\ norm.engine = "binance"
    /\ Len(norm.passes) < ContentPasses
    /\ PassesGoOn
    /\ norm' = [norm EXCEPT !.passes = Append(@, PreprocessContentOf(PassInput))]
    /\ UNCHANGED <<apiVars, loginVars, browserVars>>

\* The API engine normalizes the article once more.
NormalizeArticle ==
    /\ norm.stage = "run"
    /\ norm.engine = "weixin"
    /\ Len(norm.passes) < ArticlePasses
    /\ PassesGoOn
    /\ norm' = [norm EXCEPT !.passes = Append(@, PreprocessArticleOf(PassInput))]
    /\ UNCHANGED <<apiVars, loginVars, browserVars>>

NextNorm == NormalizeContent \/ NormalizeArticle

SpecNorm == InitNorm /\ [][NextNorm]_vars

\* The first pass over a bytes object that is valid UTF-8 has returned.
BytesNormalized ==
    /\ norm.stage = "run"
    /\ norm.input.kind = "bytes"
    /\ Utf8Decode(norm.input.data).ok
    /\ norm.passes # <<>>

\* C19: for byte input that decodes as UTF-8, normalize gives the decoded
\* text with its entities unescaped and its control characters stripped.
C19_BytesAreDecoded ==
    BytesNormalized =>
        /\ norm.passes[1].kind = "returned"
        /\ norm.passes[1].value =
              StripControl(HtmlUnescape(Utf8Decode(norm.input.data).text))

\* Two passes over a text have returned.
TwiceNormalized ==
    /\ norm.stage = "run"
    /\ norm.input.kind = "str"
    /\ Len(norm.passes) >= 2
    /\ norm.passes[2].kind = "returned"

\* C20: normalizing a text again gives the text the first pass gave.
C20_NormalizeIdempotent ==
    TwiceNormalized => norm.passes[2].value = norm.passes[1].value


-----------------------------------------------------------------------------
(***************************************************************************)
(* Properties of the normalizers.                                          *)
(***************************************************************************)
\* A control character that normalize removes: below 0x20 and not newline,
\* tab or carriage return.
IsRemovedControl(ch) == ch >= 0 /\ ch < 32 /\ ch \notin {9, 10, 13}

RECURSIVE WithoutControls(_)
\* The text with each such character taken out, the others in their order.
WithoutControls(s) ==
    IF s = <<>> THEN <<>>
    ELSE IF IsRemovedControl(Head(s)) THEN WithoutControls(Tail(s))
    ELSE <<Head(s)>> \o WithoutControls(Tail(s))

\* The first pass over a text has ended.
TextNormalized ==
    /\ norm.stage = "run"
    /\ norm.input.kind = "str"
    /\ norm.passes # <<>>

\* C21 as stated: for every text, normalize gives the text with each control
\* character below 0x20 other than newline, tab and carriage return removed
\* and every other character unchanged and in its place.
C21_OnlyControlsRemoved ==
    TextNormalized =>
        /\ norm.passes[1].kind = "returned"
        /\ norm.passes[1].value = WithoutControls(norm.input.data)

\* C21, amended: whenever normalize returns, its result holds no control
\* character below 0x20 other than newline, tab and carriage return; and
\* for a text without '&' it returns the text with exactly these characters
\* removed and every other character unchanged and in its place.
C21_ControlsRemoved ==
    TextNormalized =>
        /\ norm.passes[1].kind = "returned" =>
              \A i \in DOMAIN norm.passes[1].value :
                  ~IsRemovedControl(norm.passes[1].value[i])
        /\ (\A i \in DOMAIN norm.input.data : norm.input.data[i] # Amp) =>
              /\ norm.passes[1].kind = "returned"
              /\ norm.passes[1].value = WithoutControls(norm.input.data)

\* A text of a letter, a bell and a tab has been normalized to the letter
\* and the tab.
C21_Witness ==
    /\ TextNormalized
    /\ norm.input.data = <<LetterL, Bell, Tab>>
    /\ norm.passes[1].kind = "returned"
    /\ norm.passes[1].value = <<LetterL, Tab>>


-----------------------------------------------------------------------------
(***************************************************************************)
(* The token cache over the calls of the API engine.                       *)
(***************************************************************************)
\* What the token endpoint answered the call recorded in c, or a failure
\* when the call did not ask it.
TokenReplyOf(c) ==
    IF c.exchanges = 0 THEN HttpFailure
    ELSE IF c.op = "ensure_access_token" THEN c.reply
    ELSE c.treply

\* That answer carries a token and its lifetime.
GaveCompleteToken(c) ==
    /\ c.exchanges = 1
    /\ ~Raised(TokenReplyOf(c))
    /\ {"access_token", "expires_in"} \subseteq DOMAIN TokenReplyOf(c).json

\* The cache is absent, or holds a value, a lifetime and the expiry that
\* belongs to them: the lifetime counted from a moment that has passed.
CacheAbsentOrComplete ==
    \/ access_token = NoToken
    \/ /\ DOMAIN access_token = {"access_token", "expires_in", "expires_at"}
       /\ access_token.expires_at - access_token.expires_in \in 0..now

\* One step of the engine: the cache changes only by an exchange that gave a
\* token, to the value and lifetime of that exchange with the expiry counted
\* from the moment of storing; a call whose exchange failed raises and
\* leaves the cache as it was; and a call that finds no fresh token makes an
\* exchange.
CacheStep ==
    /\ CacheAbsentOrComplete'
    /\ access_token' # access_token =>
          /\ GaveCompleteToken(last')
          /\ access_token' =
                [access_token |-> TokenReplyOf(last').json.access_token,
                 expires_in |-> TokenReplyOf(last').json.expires_in,
                 expires_at |-> now' + TokenReplyOf(last').json.expires_in]
    /\ (last = NoCall /\ last' # NoCall /\ last'.exchanges = 1
          /\ ~GaveCompleteToken(last')) =>
          /\ last'.outcome = "raised"
          /\ access_token' = access_token
    /\ (last = NoCall /\ last' # NoCall) =>
          (last'.exchanges = 1 <=>
              (access_token = NoToken \/ access_token.expires_at <= now + SafetyMargin))

\* C22: the token cache is absent or the complete {value, expiresAt} pair
\* of one successful credential exchange; an exchange that fails raises and
\* leaves the cache exactly as it was, and the next call, finding no fresh
\* token, attempts a new exchange.
C22_CacheReplacedWholesale == [][CacheStep]_vars

\* A call found a stale token in the cache, its exchange failed, it raised,
\* and the stale token is still there.
C22_Witness ==
    /\ last.op = "direct_publish"
    /\ last.exchanges = 1
    /\ ~GaveCompleteToken(last)
    /\ last.outcome = "raised"
    /\ access_token # NoToken
    /\ access_token.access_token = "tokB"


-----------------------------------------------------------------------------
(***************************************************************************)
(* The order of the steps of one attempt of the browser engine.            *)
(***************************************************************************)
\* The steps every successful attempt takes, in the order of lines 88-194.
SuccessPath ==
    << "launch", "goto", "wait_for_load_state", "check_login_status",
       "editor.wait_for", "editor.clear", "editor.set_content",
       "post_button.wait_for", "post_button.click", "wait_for_timeout" >>

IsOnSuccessPath(e) == \E k \in DOMAIN SuccessPath : SuccessPath[k] = e.op

\* The step of the entry went through.
StepWentThrough(e) ==
    IF e.op = "check_login_status" THEN e = LoggedInVerdict
    ELSE IF e.op = "launch" THEN e.out \notin StepOutcomes \ {"ok"}
    ELSE e.out = "ok"

\* The entry is a step that ends the attempt in error: a call that raised
\* out of the inner try, or the login check answering LoggedOut.  (A page
\* query that fails is caught inside the login check, lines 333-335.)
EntersError(e) ==
    \/ e = LoggedOutVerdict
    \/ /\ e.op \notin {"page_query", "error_screenshot", "browser.close"}
       /\ e.out \in {"timeout", "error"}

\* What may still run once the attempt is in error.
DiagnosticsAndClose ==
    {"debug_screenshot", "error_screenshot", "browser.close", "stop_playwright"}

\* C23: push_to_binance returns the success result only for an attempt whose
\* steps went through once each and in this order: launch, navigation, the
\* wait for network idle with the settle delay, the login check answering
\* LoggedIn, the editor visible, the editor cleared and the content set, the
\* submit control visible, the click on it, the final settle delay.  Once a
\* step has raised or the login check has answered LoggedOut, the attempt
\* runs only screenshots and the close of the session.
C23_SuccessOnlyAfterFullPipeline ==
    /\ (result # NoResult /\ result = Returned(SuccessResult)) =>
          LET steps == SelectSeq(log, IsOnSuccessPath)
          IN  /\ Len(steps) = Len(SuccessPath)
              /\ \A k \in DOMAIN SuccessPath :
                    steps[k].op = SuccessPath[k] /\ StepWentThrough(steps[k])
    /\ \A i \in DOMAIN log :
          EntersError(log[i]) =>
              \A j \in (i + 1)..Len(log) : log[j].op \in DiagnosticsAndClose

\* An attempt that had to type the content has returned success.
C23_Witness ==
    /\ pc = "done"
    /\ result = Returned(SuccessResult)
    /\ LogHas(Ev("editor.type", "ok"))


\* The detection of the process guard and its attempt to terminate.
DetectedRunning == Ev("is_chrome_running", "True")
IsTermination(e) == e.op = "close_all_chrome_instances"

\* One step of the process guard: it hands the attempt, still without a
\* result, to the launch of the session.
GuardStep ==
    pc = "guard" =>
        /\ pc' = "start"
        /\ result' = NoResult
        /\ Len(log') > Len(log)
        /\ log'[Len(log) + 1].op = "is_chrome_running"

\* C24: the process guard never ends or holds up an attempt: whether it
\* finds no browser, terminates the browser, or fails to terminate it, its
\* step leads to the launch of the session; and the termination is attempted
\* exactly when the detection just before it reported a running browser.
C24_GuardNeverBlocks ==
    [][/\ GuardStep
       /\ \A i \in DOMAIN log' :
             /\ IsTermination(log'[i]) => i > 1 /\ log'[i - 1] = DetectedRunning
             /\ log'[i] = DetectedRunning =>
                   i < Len(log') /\ IsTermination(log'[i + 1])]_vars

\* The guard failed to terminate the browser and the session was launched.
C24_Witness ==
    /\ LogHas(Ev("close_all_chrome_instances", "False"))
    /\ chrome
    /\ LogHasOp("launch")
    /\ session = "open"


\* C25: _close_all_chrome_instances returns true exactly when no browser
\* process is running at its re-check after the settle delay; it returns
\* false when a browser process is still running then, and when issuing the
\* kill raised (which leaves the browser running).
C25_CloseReportsTermination ==
    \A i \in DOMAIN log :
        IsTermination(log[i]) => (log[i].out = "True" <=> ~chrome)


\* The check of the editor's text and its two answers.
TextFound == Ev("editor.text_check", "True")
TextEmpty == Ev("editor.text_check", "False")

\* C26: the content is set in the editor only right after the editor was
\* cleared, the editor's text is checked only after the content was set (and
\* the editor clicked), and the content is typed if and only if that check
\* has just found the editor's text empty.
C26_TypingOnlyAsFallback ==
    \A i \in DOMAIN log :
        /\ log[i].op = "editor.set_content" =>
              i > 1 /\ log[i - 1] = Ev("editor.clear", "ok")
        /\ log[i].op = "editor.text_check" =>
              /\ i > 2
              /\ log[i - 2] = Ev("editor.set_content", "ok")
              /\ log[i - 1] = Ev("editor.click", "ok")
        /\ log[i].op = "editor.type" => i > 1 /\ log[i - 1] = TextEmpty
        /\ log[i] = TextEmpty =>
              IF i = Len(log) THEN pc = "type" ELSE log[i + 1].op = "editor.type"
        /\ log[i] = TextFound =>
              /\ pc # "type"
              /\ \A j \in (i + 1)..Len(log) : log[j].op # "editor.type"

\* The check found the editor empty although a content was set, and the
\* content has been typed.
C26_Witness ==
    /\ pc = "button_wait"
    /\ content # <<>>
    /\ LogHas(TextEmpty)
    /\ LogHas(Ev("editor.type", "ok"))


\* C27: the session is launched on the first directory that exists on disk
\* in the order named profile, default profile, profile root: on the named
\* profile's directory when it exists, otherwise on the default profile's
\* when that exists, otherwise on the profile root.
C27_FirstExistingProfile ==
    \A i \in DOMAIN log :
        log[i].op = "launch" /\ log[i].out \notin {"timeout", "error"} =>
            LET named == UserDataDir \o "/" \o log[i].profile_name
                default == UserDataDir \o "/Default"
                found == log[i].existing
            IN  /\ named \in found => log[i].out = named
                /\ (named \notin found /\ default \in found) => log[i].out = default
                /\ (named \notin found /\ default \notin found) =>
                      log[i].out = UserDataDir

\* A session launched on the default profile because the named one is not
\* on disk.
C27_Witness ==
    \E i \in DOMAIN log :
        /\ log[i].op = "launch"
        /\ log[i].out = "User Data/Default"
        /\ log[i].profile_name = "Profile 1"
        /\ log[i].existing = {"User Data/Default"}


-----------------------------------------------------------------------------
(***************************************************************************)
(* The screenshots around the login check.                                 *)
(***************************************************************************)
IsVerdict(e) == e.op = "check_login_status"
IsCapture(e) == e.op = "debug_screenshot"

\* Where the entries of the login check that gave the verdict log[i] begin:
\* a page query that failed inside the check is logged before its verdict.
CheckStart(i) == IF i > 1 /\ log[i - 1].op = "page_query" THEN i - 1 ELSE i

\* The screenshot that follows the verdict log[i] has been taken, or is the
\* next thing the attempt does.
CaptureFollows(i) ==
    LET tag == IF log[i] = LoggedInVerdict THEN "logged_in" ELSE "not_logged_in"
        branch == IF log[i] = LoggedInVerdict THEN "editor_wait" ELSE "not_logged_in"
    IN  IF i < Len(log) THEN log[i + 1] = Ev("debug_screenshot", tag)
        ELSE pc = branch

\* C28 as stated: in every attempt that reaches the login check, a
\* screenshot is taken before the check and one after it, whatever the
\* verdict, and the screenshot before is the last step of the pipeline
\* preceding the check.
C28_CapturesAroundLoginCheck ==
    \A i \in DOMAIN log :
        IsVerdict(log[i]) =>
            /\ CheckStart(i) > 1
            /\ IsCapture(log[CheckStart(i) - 1])
            /\ CaptureFollows(i)

\* C28, amended: in every attempt that reaches the login check, exactly one
\* screenshot is attempted before the check, the page_loaded one right after
\* the navigation, and the wait for network idle with the settle delay comes
\* between it and the check; whatever the verdict, the first step after the
\* check is the attempt of a screenshot: logged_in after LoggedIn,
\* not_logged_in after LoggedOut.
C28_CaptureThenWaitThenCheck ==
    \A i \in DOMAIN log :
        IsVerdict(log[i]) =>
            LET s == CheckStart(i)
            IN  /\ s > 3
                /\ log[s - 3] = Ev("goto", "ok")
                /\ log[s - 2] = Ev("debug_screenshot", "page_loaded")
                /\ log[s - 1] = Ev("wait_for_load_state", "ok")
                /\ \A j \in 1..(s - 1) : IsCapture(log[j]) => j = s - 2
                /\ CaptureFollows(i)

\* The login check answered LoggedOut after a page query failed, and the
\* not_logged_in screenshot has been attempted.
C28_Witness ==
    \E i \in DOMAIN log :
        /\ i > 1 /\ i < Len(log)
        /\ log[i] = LoggedOutVerdict
        /\ log[i - 1].op = "page_query"
        /\ log[i + 1] = Ev("debug_screenshot", "not_logged_in")


-----------------------------------------------------------------------------
(***************************************************************************)
(* Page queries that raise inside the login check (under SpecLogin).       *)
(***************************************************************************)
\* A rule of the check whose page queries come before query k has decided
\* the verdict, so that query k is never made.
DecidedBefore(k) ==
    \/ \E i \in DOMAIN login_selectors :
          ProbeLogin(i) < k /\ FirstIsVisible(dom[login_selectors[i]])
    \/ \E i \in DOMAIN logged_in_selectors :
          ProbeLoggedIn(i) < k /\ FirstIsVisible(dom[logged_in_selectors[i]])
    \/ ProbeEditor < k /\ EditorPresent
    \/ ProbeTitle < k /\ LoginKeyword

\* The finished check made a page query that raised.
ProbeRaised ==
    /\ check.done
    /\ check.fail # 0
    /\ ~DecidedBefore(check.fail)

\* C30: a check in which a page query raised (by a timeout or any other
\* exception) returns LoggedOut, never LoggedIn.
C30_ProbeFailureIsLoggedOut == ProbeRaised => ~check.logged_in

\* The query for the editor raised on a page that holds the editor: the
\* check answered LoggedOut where it would have answered LoggedIn.
C30_Witness ==
    /\ ProbeRaised
    /\ check.fail = ProbeEditor
    /\ EditorPresent
    /\ ~check.logged_in


-----------------------------------------------------------------------------
(***************************************************************************)
(* Termination of the browser engine (under SpecLive).                     *)
(***************************************************************************)
\* An invocation is under way.
Invoked == pc \notin {"idle", "done"}

\* A bounded wait of the current attempt has timed out.
TimedOut == \E i \in DOMAIN log : log[i].out = "timeout"

\* C29: every invocation of push_to_binance ends, and ends by returning a
\* result of status success or error; an attempt in which a wait timed out
\* ends like any other, and afterwards the engine is idle again and accepts
\* the next invocation.
C29_EveryInvocationReturns ==
    /\ Invoked ~> (pc = "done")
    /\ [](pc = "done" /\ result # NoResult => StructuredResult(result))
    /\ TimedOut ~> (pc = "idle" /\ ENABLED CallPushToBinance)


-----------------------------------------------------------------------------
(***************************************************************************)
(* What a failed publish leaves on the platform (under SpecPublish).       *)
(***************************************************************************)
\* The endpoints publish sends requests to.
PublishEndpoints == {"draft/add", "freepublish/submit"}

\* The finished publish call uploaded its draft, had the flag enabled, and
\* its direct_publish step failed: at its token step, at the request, or by
\* the platform's error code.
SubmitFailedAfterDraft ==
    /\ last.op = "publish"
    /\ FlagEnabled
    /\ DraftStepOk
    /\ ~SubmitStepOk

\* C31: when publish runs with direct publish enabled and direct_publish
\* fails after upload_draft succeeded, publish raises and returns nothing,
\* the draft's id included; it sends no request that removes the draft, and
\* the platform keeps the draft.
C31_FailedSubmitLeavesDraft ==
    SubmitFailedAfterDraft =>
        /\ last.outcome = "raised"
        /\ last.value = None
        /\ last.draft = last.reply.draft.json.media_id
        /\ last.draft \in drafts
        /\ \A i \in 1..Len(last.sent) : last.sent[i].endpoint \in PublishEndpoints
        /\ Len(last.sent) <= 2

\* The token step of direct_publish failed after the draft d2 was uploaded:
\* nothing was submitted, publish raised, and d2 is on the platform.
C31_Witness ==
    /\ SubmitFailedAfterDraft
    /\ ~SentTo("freepublish/submit")
    /\ last.exchanges = 2
    /\ last.outcome = "raised"
    /\ last.draft = "d2"
    /\ "d2" \in drafts


-----------------------------------------------------------------------------
(***************************************************************************)
(* push_recommendation without a recommendation.  A run invokes the        *)
(* browser engine any number of times and then calls push_recommendation   *)
(* of the API engine once.                                                 *)
(***************************************************************************)
NextRecommend ==
    \/ ApiUnused /\ NextBrowser /\ UNCHANGED <<apiVars, normVars, loginVars>>
    \/ pc = "idle" /\ CallPushRecommendation_Wx

SpecRecommend == Init /\ [][NextRecommend]_vars

\* The result r is an error result.
IsErrorResult(r) == r # None /\ r.status = "error"

\* The browser engine's push_recommendation found no recommendation: the
\* file is missing or is not JSON, or its recommendation is empty or null.
BrowserFoundNothing ==
    /\ caller = "push_recommendation"
    /\ log # <<>>
    /\ log[1].op = "read_recommendation"
    /\ log[1].out \in {"missing", "malformed", "empty", "null"}

\* The same for the finished call of the API engine.
ApiFoundNothing ==
    /\ last.op = "push_recommendation"
    /\ \/ last.arg.file.state \in {"missing", "malformed", "json_null"}
       \/ /\ last.arg.file.state = "json"
          /\ last.arg.file.recommendation = <<>>

\* C32: push_recommendation of either engine, when the recommendation file
\* is missing, is not valid JSON or holds no content, returns an error
\* result and does nothing else: the browser engine looks at no browser
\* process and launches no session, the API engine sends no request and
\* makes no token exchange.
C32_NothingToPushTouchesNothing ==
    /\ BrowserFoundNothing =>
          /\ Len(log) = 1
          /\ pc = "done"
          /\ session = "none"
          /\ ~browser
          /\ rec_result.kind = "returned" /\ IsErrorResult(rec_result.value)
    /\ ApiFoundNothing =>
          /\ last.outcome = "returned"
          /\ IsErrorResult(last.value)
          /\ last.sent = <<>>
          /\ last.exchanges = 0
          /\ access_token = last.pre_token
          /\ last.draft = ""


-----------------------------------------------------------------------------
(***************************************************************************)
(* upload_image with and without an image (under SpecPublish).             *)
(***************************************************************************)
\* C33: upload_image called with an empty URL returns the built-in media id
\* and does nothing else: it fetches nothing, asks for no token and sends
\* nothing to the media endpoint.  Called with a non-empty URL it first
\* fetches the image from that URL, then obtains a token (from the cache or
\* by one exchange), then sends one upload to the media endpoint with that
\* token, and returns the media id of the answer; a step that fails ends
\* the call by raising, with the later steps not taken.
C33_EmptyUrlSkipsUpload ==
    last.op = "upload_image" =>
        IF last.arg.image_url = ""
        THEN /\ last.outcome = "returned"
             /\ last.value = BuiltinMediaId
             /\ last.sent = <<>>
             /\ last.exchanges = 0
             /\ access_token = last.pre_token
             /\ now = last.pre_now
        ELSE /\ Len(last.sent) \in {1, 2}
             /\ last.sent[1].endpoint = "image"
             /\ last.sent[1].body = last.arg.image_url
             /\ last.exchanges <= 1
             /\ Len(last.sent) = 1 =>
                   last.outcome = "raised"
             /\ Len(last.sent) = 2 =>
                   /\ last.sent[2].endpoint = "material/add_material"
                   /\ access_token # NoToken
                   /\ last.sent[2].token = access_token.access_token
             /\ last.outcome = "returned" =>
                   /\ Len(last.sent) = 2
                   /\ last.value = last.reply.endpoint.json.media_id

\* upload_image was called without a URL on an engine that has no token:
\* it returned the built-in media id and the engine still has no token.
C33_Witness ==
    /\ last.op = "upload_image"
    /\ last.arg.image_url = ""
    /\ last.outcome = "returned"
    /\ last.value = BuiltinMediaId
    /\ last.pre_token = NoToken
    /\ access_token = NoToken

=============================================================================
